---- MODULE Spec2Model ----
(***************************************************************************)
(* Model of the sample palette of experiments/lr5816/devices.py            *)
(* (class McgranePalette): construction, calibration, the forward map      *)
(* index -> motor coordinates, the snake-path indexer, the bounds-checked  *)
(* moves and the readbacks computed from the motor coordinates.            *)
(*                                                                         *)
(* Real numbers (python / numpy floats) are modelled as exact fractions    *)
(* <<n, d>> in lowest terms with d >= 0.  d = 0 stands for the non-finite  *)
(* floats numpy produces on a division by zero: <<1,0>> = inf,             *)
(* <<-1,0>> = -inf, <<0,0>> = nan.  Rounding error of binary floats is not *)
(* modelled.                                                               *)
(***************************************************************************)
EXTENDS Integers, Sequences, FiniteSets, TLC

(***************************************************************************)
(* Bounds of the model                                                     *)
(***************************************************************************)
MaxDim == 2
MaxChips == 2
MaxN == 3
MaxM == 3
MaxFiles == 2
MaxAnswers == 2

(***************************************************************************)
(* Fractions                                                               *)
(***************************************************************************)
Abs(x) == IF x < 0 THEN -x ELSE x

Sign(x) == IF x < 0 THEN -1 ELSE IF x > 0 THEN 1 ELSE 0

RECURSIVE GCD(_, _)
GCD(a, b) == IF b = 0 THEN a ELSE GCD(b, a % b)

Norm(n, d) ==
    IF d = 0 THEN <<Sign(n), 0>>
    ELSE LET g == GCD(Abs(n), Abs(d))
             s == IF d < 0 THEN -1 ELSE 1
         IN  <<(s * n) \div g, (s * d) \div g>>

R(n) == <<n, 1>>

RAdd(a, b) ==
    IF a[2] = 0 /\ b[2] = 0
    THEN (IF a[1] = b[1] THEN a ELSE <<0, 0>>)
    ELSE Norm(a[1] * b[2] + b[1] * a[2], a[2] * b[2])

RNeg(a) == <<-a[1], a[2]>>

RSub(a, b) == RAdd(a, RNeg(b))

RMul(a, b) == Norm(a[1] * b[1], a[2] * b[2])

RDiv(a, b) == Norm(a[1] * b[2], a[2] * b[1])

\* a > b as numpy compares floats: every comparison with nan is False
RGt(a, b) ==
    IF (a[2] = 0 /\ a[1] = 0) \/ (b[2] = 0 /\ b[1] = 0) THEN FALSE
    ELSE IF a[2] = 0 THEN (a[1] = 1 /\ b # a)
    ELSE IF b[2] = 0 THEN b[1] = -1
    ELSE a[1] * b[2] > b[1] * a[2]

\* np.round: round half to even; non-finite values are returned unchanged
RRound(a) ==
    IF a[2] = 0 THEN a
    ELSE LET q == a[1] \div a[2]
             f == a[1] - q * a[2]
         IN  IF 2 * f < a[2] THEN R(q)
             ELSE IF 2 * f > a[2] THEN R(q + 1)
             ELSE IF q % 2 = 0 THEN R(q) ELSE R(q + 1)

\* np.minimum: nan propagates
RMin(a, b) ==
    IF a[2] = 0 /\ a[1] = 0 THEN a
    ELSE IF b[2] = 0 /\ b[1] = 0 THEN b
    ELSE IF RGt(a, b) THEN b ELSE a

\* np.sqrt of a fraction whose numerator and denominator are perfect squares
\* (the calibrations of the model are chosen so that this is the case)
ISqrt(n) == CHOOSE r \in 0..n : r * r <= n /\ (r + 1) * (r + 1) > n

RSqrt(a) ==
    IF a[2] = 0 THEN a
    ELSE IF a[1] < 0 THEN <<0, 0>>
    ELSE <<ISqrt(a[1]), ISqrt(a[2])>>

(***************************************************************************)
(* 3-vectors (numpy arrays of the x, y, z motor coordinates).  None is the *)
(* python None the calibration attributes are initialised with.            *)
(***************************************************************************)
None == <<>>

Vec(x, y, z) == <<R(x), R(y), R(z)>>

VAdd(u, v) == <<RAdd(u[1], v[1]), RAdd(u[2], v[2]), RAdd(u[3], v[3])>>

VSub(u, v) == <<RSub(u[1], v[1]), RSub(u[2], v[2]), RSub(u[3], v[3])>>

VScale(s, v) == <<RMul(s, v[1]), RMul(s, v[2]), RMul(s, v[3])>>

VDivS(v, s) == <<RDiv(v[1], s), RDiv(v[2], s), RDiv(v[3], s)>>

VDot(u, v) == RAdd(RAdd(RMul(u[1], v[1]), RMul(u[2], v[2])), RMul(u[3], v[3]))

VNorm2(v) == VDot(v, v)

RECURSIVE SumSeq(_)
SumSeq(s) == IF s = <<>> THEN 0 ELSE s[1] + SumSeq(Tail(s))

(***************************************************************************)
(* State                                                                   *)
(***************************************************************************)
VARIABLES
    constructed,              \* a McgranePalette object exists
    N, M, chip_dims,          \* grid extents and chip dimensions
    chip_spacing, sample_spacing,
    calibrated,               \* self.calibrated
    start_pt, n_pt, m_pt,     \* calibration points (None until set)
    calibration_coordinates,
    N_hat, M_hat, NM_hat,
    length_calibrated,
    coordinates,              \* positions of the x, y, z motors
    setpoint,                 \* positions last requested of the motors
    calib_dir,                \* the calibration folder: the number of files
                              \* and the content of the most recent one
    pc,                       \* "idle", or inside _accept_calibration at the
                              \* first input() ("prompt") or at the one of the
                              \* loop ("reprompt")
    pending,                  \* the call waiting at the prompt, its points
    responses,                \* what was typed at the prompts of the last call
    stops,                    \* the motors stopped by the call in progress
    scan,                     \* the scan plan that runs on the palette
    xy,                       \* the last call of xy_sequencer
    sweep,                    \* the running rel_smooth_sweep plan
    seq,                      \* the event sequencer and a Sequencer.set status
    delay,                    \* the running delay_scan plan
    daq,                      \* the running a2_daq_scan plan
    last                      \* the last call, its arguments and its outcome

config == <<constructed, N, M, chip_dims, chip_spacing, sample_spacing>>

calib == <<calibrated, start_pt, n_pt, m_pt, calibration_coordinates,
           N_hat, M_hat, NM_hat, length_calibrated>>

vars == <<constructed, N, M, chip_dims, chip_spacing, sample_spacing,
          calibrated, start_pt, n_pt, m_pt, calibration_coordinates,
          N_hat, M_hat, NM_hat, length_calibrated,
          coordinates, setpoint, calib_dir, pc, pending, responses, last, stops, scan, xy, sweep, seq, delay, daq>>

\* outcome of a call: the exception raised ("" when it returned), the value
\* returned (a tuple; <<>> when there is none) and the move requests the call
\* issued to the x, y and z motors (<<>> when it issued none)
Call(op, args, exc, ret, cmds) ==
    [op |-> op, args |-> args, exc |-> exc, ret |-> ret, cmds |-> cmds]

(***************************************************************************)
(* Attributes derived in __init__                                          *)
(***************************************************************************)
NumChipsOf(dims) == Len(dims) - 1

LengthOf(n, dims, ss, cs) ==
    RAdd(RMul(R(n - NumChipsOf(dims) - 1), ss), RMul(R(NumChipsOf(dims)), cs))

ChipFactorOf(n, dims, ss, cs) == RDiv(RSub(cs, ss), LengthOf(n, dims, ss, cs))

\* chip_dims_percents holding the share of each chip instead of the
\* cumulative share
ChipDimsPercentsOfShares(n, dims) ==
    [c \in 1..Len(dims) |-> Norm(dims[c], n)]

ChipDimsPercentsOf(n, dims) ==
    [c \in 1..Len(dims) |-> Norm(SumSeq(SubSeq(dims, 1, c)), n)]

num_chips == NumChipsOf(chip_dims)

length == LengthOf(N, chip_dims, sample_spacing, chip_spacing)

chip_factor == ChipFactorOf(N, chip_dims, sample_spacing, chip_spacing)

chip_dims_percents == ChipDimsPercentsOf(N, chip_dims)

samples == N * M

(***************************************************************************)
(* Inputs                                                                  *)
(***************************************************************************)
ChipDimsSet ==
    UNION {[1..l -> 1..MaxDim] : l \in 1..MaxChips}

\* (sample_spacing, chip_spacing): equal spacings, and the defaults 1.0, 2.4
Spacings == {<<R(1), R(1)>>, <<R(1), <<12, 5>>>>}

(***************************************************************************)
(* __init__                                                                *)
(***************************************************************************)
\* __init__ rejecting only an extent smaller than the sum of the chip dimensions
InitExcLess(n, dims, ss, cs) ==
    IF n < SumSeq(dims) THEN "InputError"
    ELSE IF n = 0 /\ Len(dims) > 0 THEN "ZeroDivisionError"
    ELSE IF LengthOf(n, dims, ss, cs)[1] = 0 THEN "ZeroDivisionError"
    ELSE ""

InitExc(n, dims, ss, cs) ==
    IF n # SumSeq(dims) THEN "InputError"
    ELSE IF n = 0 /\ Len(dims) > 0 THEN "ZeroDivisionError"
    ELSE IF LengthOf(n, dims, ss, cs)[1] = 0 THEN "ZeroDivisionError"
    ELSE ""

Construct(n, m, dims, ss, cs) ==
    /\ ~constructed
    /\ pc = "idle"
    /\ LET exc == InitExc(n, dims, ss, cs)
       IN  /\ last' = Call("__init__", <<n, m, dims, ss, cs>>, exc, <<>>, <<>>)
           /\ IF exc = ""
              THEN /\ constructed' = TRUE
                   /\ N' = n
                   /\ M' = m
                   /\ chip_dims' = dims
                   /\ sample_spacing' = ss
                   /\ chip_spacing' = cs
              ELSE UNCHANGED config
    /\ calibrated' = FALSE
    /\ start_pt' = None
    /\ n_pt' = None
    /\ m_pt' = None
    /\ calibration_coordinates' = None
    /\ N_hat' = None
    /\ M_hat' = None
    /\ NM_hat' = None
    /\ length_calibrated' = None
    /\ UNCHANGED <<coordinates, setpoint, calib_dir, pc, pending, responses>>

(***************************************************************************)
(* Calibration                                                             *)
(***************************************************************************)
\* N_hat without the scaling for the chip gaps
NHatOfUnscaled(s, n) == VDivS(VSub(n, s), R(N - 1))

NHatOf(s, n) ==
    VDivS(VScale(RSub(R(1), RMul(R(num_chips), chip_factor)), VSub(n, s)),
          R(N - 1))

\* M_hat dividing by the number of samples instead of the number of steps
MHatOfSamples(s, m) == VDivS(VSub(m, s), R(M))

MHatOf(s, m) == VDivS(VSub(m, s), R(M - 1))

LengthCalibratedOf(s, n) == RSqrt(VNorm2(VSub(n, s)))

\* save_calibration, body: the file is created and opened for writing, then
\* the points are serialised; io_ok is whether the directory is writable
SaveExc(coords, io_ok) ==
    IF ~io_ok THEN "OSError"
    ELSE IF coords = None \/ \E c \in 1..Len(coords) : coords[c] = None
         THEN "TypeError"
    ELSE ""

\* a file whose serialisation fails was already created, and stays empty
SaveFile(coords, io_ok) ==
    IF ~io_ok THEN calib_dir
    ELSE IF SaveExc(coords, io_ok) = "TypeError"
         THEN [files |-> calib_dir.files + 1, latest |-> <<>>]
    ELSE [files |-> calib_dir.files + 1, latest |-> coords]

\* lines 222-251 of _accept_calibration, after the overwrite prompt: the
\* attributes are assigned one after the other, and an exception leaves the
\* later ones as they were
AcceptExc(s, n, m, io_ok) ==
    IF s = None \/ n = None \/ m = None THEN "TypeError"
    ELSE SaveExc(<<s, n, m>>, io_ok)

NewNHat(old, s, n) == IF s = None \/ n = None THEN old ELSE NHatOf(s, n)

NewMHat(old, s, n, m) ==
    IF s = None \/ n = None \/ m = None THEN old ELSE MHatOf(s, m)

NewNMHat(old, s, n, m) ==
    IF s = None \/ n = None \/ m = None THEN old
    ELSE <<NHatOf(s, n), MHatOf(s, m)>>

NewLengthCalibrated(old, s, n, m) ==
    IF s = None \/ n = None \/ m = None THEN old ELSE LengthCalibratedOf(s, n)

SetCalibration(op, args, s, n, m, io_ok) ==
    /\ calibrated' = TRUE
    /\ start_pt' = s
    /\ n_pt' = n
    /\ m_pt' = m
    /\ calibration_coordinates' = <<s, n, m>>
    /\ N_hat' = NewNHat(N_hat, s, n)
    /\ M_hat' = NewMHat(M_hat, s, n, m)
    /\ NM_hat' = NewNMHat(NM_hat, s, n, m)
    /\ length_calibrated' = NewLengthCalibrated(length_calibrated, s, n, m)
    /\ calib_dir' = IF s = None \/ n = None \/ m = None THEN calib_dir
                    ELSE SaveFile(<<s, n, m>>, io_ok)
    /\ last' = Call(op, args, AcceptExc(s, n, m, io_ok), <<>>, <<>>)

Lower(r) == IF r = "Y" THEN "y" ELSE IF r = "N" THEN "n" ELSE r

Responses == {"y", "n", "N", ""}

\* _accept_calibration asking for confirmation whatever confirm_overwrite is
EnterAcceptCalibrationAlwaysAsk(op, args, s, n, m, confirm_overwrite, io_ok) ==
    IF calibrated
    THEN /\ pc' = "prompt"
         /\ pending' = [op |-> op, args |-> args, pts |-> <<s, n, m>>]
         /\ responses' = <<>>
         /\ last' = Call(op, args, "", <<>>, <<>>)
         /\ UNCHANGED <<calib, calib_dir>>
    ELSE /\ SetCalibration(op, args, s, n, m, io_ok)
         /\ responses' = <<>>
         /\ UNCHANGED <<pc, pending>>

\* _accept_calibration up to the first input(), or to its end when no
\* confirmation is asked for
EnterAcceptCalibration(op, args, s, n, m, confirm_overwrite, io_ok) ==
    IF calibrated /\ confirm_overwrite
    THEN /\ pc' = "prompt"
         /\ pending' = [op |-> op, args |-> args, pts |-> <<s, n, m>>]
         /\ responses' = <<>>
         /\ last' = Call(op, args, "", <<>>, <<>>)
         /\ UNCHANGED <<calib, calib_dir>>
    ELSE /\ SetCalibration(op, args, s, n, m, io_ok)
         /\ responses' = <<>>
         /\ UNCHANGED <<pc, pending>>

AcceptCalibration(s, n, m, confirm_overwrite, io_ok) ==
    /\ constructed
    /\ pc = "idle"
    /\ calib_dir.files < MaxFiles
    /\ EnterAcceptCalibration("_accept_calibration",
                              <<s, n, m, confirm_overwrite>>,
                              s, n, m, confirm_overwrite, io_ok)
    /\ UNCHANGED <<config, coordinates, setpoint>>

\* the prompt comparing the answer with "n" without lower-casing it
AnswerCaseSensitive(response, io_ok) ==
    /\ pc \in {"prompt", "reprompt"}
    /\ Len(responses) < MaxAnswers
    /\ Lower(response) \notin {"y", "n"} => Len(responses) + 1 < MaxAnswers
    /\ responses' = Append(responses, response)
    /\ IF Lower(response) \notin {"y", "n"}
       THEN /\ pc' = "reprompt"
            /\ UNCHANGED <<calib, calib_dir, pending, last>>
       ELSE /\ pc' = "idle"
            /\ pending' = None
            /\ IF response = "n"
               THEN /\ last' = Call(pending.op, pending.args, "", <<>>, <<>>)
                    /\ UNCHANGED <<calib, calib_dir>>
               ELSE SetCalibration(pending.op, pending.args, pending.pts[1],
                                   pending.pts[2], pending.pts[3], io_ok)
    /\ UNCHANGED <<config, coordinates, setpoint>>

\* one answer to the overwrite prompt: anything but y or n (in either case)
\* asks again, n returns, y goes on to lines 222-251
Answer(response, io_ok) ==
    /\ pc \in {"prompt", "reprompt"}
    /\ Len(responses) < MaxAnswers
    /\ Lower(response) \notin {"y", "n"} => Len(responses) + 1 < MaxAnswers
    /\ responses' = Append(responses, response)
    /\ IF Lower(response) \notin {"y", "n"}
       THEN /\ pc' = "reprompt"
            /\ UNCHANGED <<calib, calib_dir, pending, last>>
       ELSE /\ pc' = "idle"
            /\ pending' = None
            /\ IF Lower(response) = "n"
               THEN /\ last' = Call(pending.op, pending.args, "", <<>>, <<>>)
                    /\ UNCHANGED <<calib, calib_dir>>
               ELSE SetCalibration(pending.op, pending.args, pending.pts[1],
                                   pending.pts[2], pending.pts[3], io_ok)
    /\ UNCHANGED <<config, coordinates, setpoint>>

\* load_calibration without a name: the most recent file of the folder
LoadCalibration(confirm_overwrite, io_ok) ==
    /\ constructed
    /\ pc = "idle"
    /\ calib_dir.files < MaxFiles
    /\ LET args == <<confirm_overwrite>>
       IN  IF calib_dir.files = 0
           THEN /\ last' = Call("load_calibration", args, "ValueError",
                                <<>>, <<>>)
                /\ UNCHANGED <<calib, calib_dir, pc, pending, responses>>
           ELSE IF calib_dir.latest = <<>>
           THEN /\ last' = Call("load_calibration", args, "JSONDecodeError",
                                <<>>, <<>>)
                /\ UNCHANGED <<calib, calib_dir, pc, pending, responses>>
           ELSE EnterAcceptCalibration("load_calibration", args,
                                       calib_dir.latest[1],
                                       calib_dir.latest[2],
                                       calib_dir.latest[3], confirm_overwrite,
                                       io_ok)
    /\ UNCHANGED <<config, coordinates, setpoint>>

SaveCalibration(io_ok) ==
    /\ constructed
    /\ pc = "idle"
    /\ calib_dir.files < MaxFiles
    /\ IF ~calibrated
       THEN /\ last' = Call("save_calibration", <<>>, "NotCalibratedError",
                            <<>>, <<>>)
            /\ UNCHANGED calib_dir
       ELSE /\ last' = Call("save_calibration", <<>>,
                            SaveExc(calibration_coordinates, io_ok), <<>>, <<>>)
            /\ calib_dir' = SaveFile(calibration_coordinates, io_ok)
    /\ UNCHANGED <<config, calib, coordinates, setpoint, pc, pending,
                   responses>>

(***************************************************************************)
(* Chip classifiers, forward map, path indexer                             *)
(***************************************************************************)
\* _chip_from_i, body: <<idx>> for the first chip boundary exceeding i, None
\* when the loop ends without returning
ChipFromI(i) ==
    IF \E idx \in 1..Len(chip_dims) : i < SumSeq(SubSeq(chip_dims, 1, idx))
    THEN <<(CHOOSE idx \in 1..Len(chip_dims) :
               /\ i < SumSeq(SubSeq(chip_dims, 1, idx))
               /\ \A e \in 1..(idx - 1) : ~(i < SumSeq(SubSeq(chip_dims, 1, e))))
           - 1>>
    ELSE None

\* the exception locate_2d(i, j) ends with, "" when it returns
Locate2dExc(i, j) ==
    IF N_hat = None \/ start_pt = None \/ M_hat = None THEN "TypeError"
    ELSE IF ~calibrated THEN "NotCalibratedError"
    ELSE IF ChipFromI(i) = None \/ n_pt = None THEN "TypeError"
    ELSE ""

\* locate_2d without the correction for the chip gaps
Locate2dValNoChip(i, j) ==
    VAdd(VAdd(start_pt, VScale(R(i), N_hat)), VScale(R(j), M_hat))

Locate2dVal(i, j) ==
    VAdd(VAdd(VAdd(start_pt, VScale(R(i), N_hat)), VScale(R(j), M_hat)),
         VScale(RMul(R(ChipFromI(i)[1]), chip_factor), VSub(n_pt, start_pt)))

\* locate_1d without the reversal of the odd rows
Locate1dValNoSnake(k) == <<k \div M, k % M>>

\* locate_1d reversing the odd rows one column too far
Locate1dValOffByOne(k) ==
    LET i == k \div M
        j == k % M
    IN  IF i % 2 = 1 THEN <<i, M - j>> ELSE <<i, j>>

Locate1dVal(k) ==
    LET i == k \div M
        j == k % M
    IN  IF i % 2 = 1 THEN <<i, (M - j) - 1>> ELSE <<i, j>>

\* the sample number of grid index (i, j), as position computes it
SampleOf(i, j) == i * M + (IF i % 2 = 1 THEN M - j - 1 ELSE j)

(***************************************************************************)
(* Readbacks                                                               *)
(***************************************************************************)
PercentComplete(coords) ==
    RDiv(VDot(VSub(coords, start_pt), N_hat),
         RSqrt(VNorm2(VSub(n_pt, start_pt))))

\* the loop of _chip_from_xyz over chip_dims_percents[::-1]
RECURSIVE ChipScan(_, _)
ChipScan(pct, i) ==
    IF i >= Len(chip_dims) THEN 0
    ELSE IF RGt(pct, chip_dims_percents[Len(chip_dims) - i])
         THEN (IF num_chips - i + 1 < num_chips THEN num_chips - i + 1
               ELSE num_chips)
    ELSE ChipScan(pct, i + 1)

ChipFromXyzExc(coords) ==
    IF ~calibrated THEN "NotCalibratedError"
    ELSE IF start_pt = None \/ N_hat = None \/ n_pt = None THEN "TypeError"
    ELSE ""

ChipFromXyzVal(coords) == ChipScan(PercentComplete(coords), 0)

ChipExc == ChipFromXyzExc(coordinates)

ChipVal == ChipFromXyzVal(coordinates)

IndexExc ==
    IF ~calibrated THEN "NotCalibratedError"
    ELSE IF start_pt = None \/ NM_hat = None THEN "TypeError"
    ELSE IF ChipExc # "" THEN ChipExc
    ELSE IF length_calibrated = None THEN "TypeError"
    ELSE ""

\* index without the correction for the chip gaps already crossed
RawIndexNoChip ==
    LET start_diff == VSub(coordinates, start_pt)
    IN  <<RRound(VDot(start_diff, NM_hat[1])),
          RRound(RSub(VDot(start_diff, NM_hat[2]), R(0)))>>

RawIndex ==
    LET start_diff == VSub(coordinates, start_pt)
    IN  <<RRound(RSub(VDot(start_diff, NM_hat[1]),
                      RMul(RMul(R(ChipVal), chip_factor), length_calibrated))),
          RRound(RSub(VDot(start_diff, NM_hat[2]), R(0)))>>

\* np.minimum(raw_index, [N-1, M-1]).astype(int); the values are finite
\* whole numbers here
IndexVal ==
    <<RMin(RawIndex[1], R(N - 1))[1], RMin(RawIndex[2], R(M - 1))[1]>>

PositionVal == SampleOf(IndexVal[1], IndexVal[2])

RemainingVal == samples - PositionVal - 1

(***************************************************************************)
(* Moves                                                                   *)
(***************************************************************************)
\* positions given to move(x, y, z): before the start corner, inside the
\* grid and beyond the far corners
RawPts == {Vec(-2, -1, 0), Vec(1, 1, 0), Vec(N + 2, M + 1, 0)}

\* move_3d: one request to each motor, none of them waited for
Move3d(op, args, x, y, z) ==
    /\ setpoint' = <<x, y, z>>
    /\ last' = Call(op, args, "", <<"status">>, <<x, y, z>>)
    /\ UNCHANGED coordinates

Failed(op, args, exc) ==
    /\ last' = Call(op, args, exc, <<>>, <<>>)
    /\ UNCHANGED <<coordinates, setpoint>>

\* move_2d accepting i = N and j = M
Move2dLooseBound(op, args, i, j) ==
    IF ~calibrated THEN Failed(op, args, "NotCalibratedError")
    ELSE IF ~(0 <= i /\ i <= N) \/ ~(0 <= j /\ j <= M)
    THEN Failed(op, args, "InvalidSampleError")
    ELSE IF Locate2dExc(i, j) # "" THEN Failed(op, args, Locate2dExc(i, j))
    ELSE Move3d(op, args, Locate2dVal(i, j)[1], Locate2dVal(i, j)[2],
                Locate2dVal(i, j)[3])

\* move_2d
Move2d(op, args, i, j) ==
    IF ~calibrated THEN Failed(op, args, "NotCalibratedError")
    ELSE IF ~(0 <= i /\ i < N) \/ ~(0 <= j /\ j < M)
    THEN Failed(op, args, "InvalidSampleError")
    ELSE IF Locate2dExc(i, j) # "" THEN Failed(op, args, Locate2dExc(i, j))
    ELSE Move3d(op, args, Locate2dVal(i, j)[1], Locate2dVal(i, j)[2],
                Locate2dVal(i, j)[3])

\* move_1d
Move1d(op, args, k) ==
    IF ~calibrated THEN Failed(op, args, "NotCalibratedError")
    ELSE IF ~(0 <= k /\ k < samples)
    THEN Failed(op, args, "InvalidSampleError")
    ELSE Move2d(op, args, Locate1dVal(k)[1], Locate1dVal(k)[2])

\* move(*args): args is the tuple of positional arguments
MoveFuncs(op, args) ==
    IF Len(args) > 3 THEN Failed(op, args, "ValueError")
    ELSE IF Len(args) = 0 THEN Failed(op, args, "TypeError")
    ELSE IF Len(args) = 1 THEN Move1d(op, args, args[1])
    ELSE IF Len(args) = 2 THEN Move2d(op, args, args[1], args[2])
    ELSE Move3d(op, args, args[1], args[2], args[3])

Move(args) ==
    /\ constructed
    /\ pc = "idle"
    /\ MoveFuncs("move", args)
    /\ UNCHANGED <<config, calib, calib_dir, pc, pending, responses>>

MoveArgs ==
    {<<>>, <<0, 0, 0, 0>>}
      \cup {<<k>> : k \in -1..samples}
      \cup {<<i, j>> : i \in -1..N, j \in -1..M}
      \cup RawPts

\* a motor reaches the position requested of it
AxisArrive(c) ==
    /\ constructed
    /\ coordinates[c] # setpoint[c]
    /\ coordinates' = [coordinates EXCEPT ![c] = setpoint[c]]
    /\ UNCHANGED <<config, calib, setpoint, calib_dir, pc, pending, responses,
                   last>>

(***************************************************************************)
(* Calls that only read                                                    *)
(***************************************************************************)
Reads(op, args, exc, ret) ==
    /\ constructed
    /\ pc = "idle"
    /\ last' = Call(op, args, exc, IF exc = "" THEN ret ELSE <<>>, <<>>)
    /\ UNCHANGED <<config, calib, coordinates, setpoint, calib_dir, pc,
                   pending, responses>>

Locate2d(i, j) ==
    Reads("locate_2d", <<i, j>>, Locate2dExc(i, j), Locate2dVal(i, j))

Locate1d(k) ==
    Reads("locate_1d", <<k>>,
          IF calibrated THEN "" ELSE "NotCalibratedError", Locate1dVal(k))

\* _chip_from_i called on its own
ChipFromICall(i) ==
    Reads("_chip_from_i", <<i>>,
          IF calibrated THEN "" ELSE "NotCalibratedError", ChipFromI(i))

Index == Reads("index", <<>>, IndexExc, IndexVal)

Position == Reads("position", <<>>, IndexExc, <<PositionVal>>)

Remaining == Reads("remaining", <<>>, IndexExc, <<RemainingVal>>)

Chip == Reads("chip", <<>>, ChipExc, <<ChipVal>>)

(***************************************************************************)
(* mv: a move that is waited for                                           *)
(***************************************************************************)
\* mv(*args) with the default wait=True, up to the wait on the composite
\* status: the read of index and position, then move
Mv(args) ==
    /\ constructed
    /\ pc = "idle"
    /\ IF IndexExc # "" THEN Failed("mv", args, IndexExc)
       ELSE MoveFuncs("mv", args)
    /\ pc' = IF last'.exc = "" /\ last'.cmds # <<>> THEN "mv_wait" ELSE "idle"
    /\ pending' = IF last'.exc = "" /\ last'.cmds # <<>> THEN args ELSE None
    /\ stops' = <<>>
    /\ UNCHANGED <<config, calib, calib_dir, responses>>

\* the wait ends: the three motors have arrived, mv logs and returns None
MvDone ==
    /\ pc = "mv_wait"
    /\ coordinates = setpoint
    /\ pc' = "idle"
    /\ pending' = None
    /\ last' = Call("mv", pending, "", <<>>, last.cmds)
    /\ UNCHANGED <<config, calib, coordinates, setpoint, calib_dir, responses,
                   stops>>

\* the wait raises (a timeout, a failed motion): mv does not catch it
MvWaitRaises(exc) ==
    /\ pc = "mv_wait"
    /\ pc' = "idle"
    /\ pending' = None
    /\ last' = Call("mv", pending, exc, <<>>, last.cmds)
    /\ UNCHANGED <<config, calib, coordinates, setpoint, calib_dir, responses,
                   stops>>

\* KeyboardInterrupt during the wait: caught by mv, which calls stop()
MvInterrupt ==
    /\ pc = "mv_wait"
    /\ pc' = "mv_stop"
    /\ UNCHANGED <<config, calib, coordinates, setpoint, calib_dir, pending,
                   responses, stops, last>>

\* stop(): the next motor of self.motors is stopped where it is
Stop ==
    /\ pc = "mv_stop"
    /\ Len(stops) < 3
    /\ stops' = Append(stops, Len(stops) + 1)
    /\ setpoint' = [setpoint EXCEPT ![Len(stops) + 1] =
                        coordinates[Len(stops) + 1]]
    /\ UNCHANGED <<config, calib, coordinates, calib_dir, pc, pending,
                   responses, last>>

\* mv returning after the first stop
MvStoppedEarly ==
    /\ pc = "mv_stop"
    /\ Len(stops) >= 1
    /\ pc' = "idle"
    /\ pending' = None
    /\ last' = Call("mv", pending, "", <<>>, last.cmds)
    /\ UNCHANGED <<config, calib, coordinates, setpoint, calib_dir, responses,
                   stops>>

\* stop() has gone through the three motors: the except clause ends and mv
\* returns None
MvStopped ==
    /\ pc = "mv_stop"
    /\ Len(stops) = 3
    /\ pc' = "idle"
    /\ pending' = None
    /\ last' = Call("mv", pending, "", <<>>, last.cmds)
    /\ UNCHANGED <<config, calib, coordinates, setpoint, calib_dir, responses,
                   stops>>

(***************************************************************************)
(* Specifications                                                          *)
(***************************************************************************)
\* calibration points handed to _accept_calibration: the unit grid, the
\* nominal geometry at z = -2, a grid of pitch 2, and two triples with a
\* missing point
CalibrationInputs ==
    {<<Vec(0, 0, 0), Vec(N - 1, 0, 0), Vec(0, M - 1, 0)>>,
     <<Vec(0, 0, -2), <<length, R(0), R(-2)>>, Vec(0, M - 1, -2)>>,
     <<Vec(1, 0, -2), Vec(1 + 2 * (N - 1), 0, -2), Vec(1, 2 * (M - 1), -2)>>,
     <<None, Vec(N - 1, 0, 0), Vec(0, M - 1, 0)>>,
     <<Vec(0, 0, 0), Vec(N - 1, 0, 0), None>>}

NoCall == Call("", <<>>, "", <<>>, <<>>)

\* no plan has been started
NoScan == [pc |-> "off"]

\* xy_sequencer has not been called
NoXy == [called |-> FALSE]

\* rel_smooth_sweep has not been started
NoSweep == [pc |-> "off"]

\* no Sequencer.set has been issued
NoSeq == [pc |-> "off"]

\* delay_scan has not been started
NoDelay == [pc |-> "off"]

\* a2_daq_scan has not been started
NoDaq == [pc |-> "off"]

EmptyDir == [files |-> 0, latest |-> <<>>]

\* before any palette is constructed
Init ==
    /\ constructed = FALSE
    /\ N = 0
    /\ M = 0
    /\ chip_dims = <<>>
    /\ chip_spacing = R(0)
    /\ sample_spacing = R(0)
    /\ calibrated = FALSE
    /\ start_pt = None
    /\ n_pt = None
    /\ m_pt = None
    /\ calibration_coordinates = None
    /\ N_hat = None
    /\ M_hat = None
    /\ NM_hat = None
    /\ length_calibrated = None
    /\ coordinates = Vec(0, 0, 0)
    /\ setpoint = Vec(0, 0, 0)
    /\ calib_dir = EmptyDir
    /\ pc = "idle"
    /\ pending = None
    /\ responses = <<>>
    /\ stops = <<>>
    /\ scan = NoScan
    /\ xy = NoXy
    /\ sweep = NoSweep
    /\ seq = NoSeq
    /\ delay = NoDelay
    /\ daq = NoDaq
    /\ last = NoCall

\* construction of a palette
NextConstruct ==
    /\ \E n \in 1..MaxN, m \in 1..MaxM, dims \in ChipDimsSet,
          sp \in Spacings :
          Construct(n, m, dims, sp[1], sp[2])
    /\ UNCHANGED <<stops, scan, xy, sweep, seq, delay, daq>>

SpecConstruct == Init /\ [][NextConstruct]_vars

\* a palette as __init__ leaves it, the motors at the origin.  A grid one
\* sample wide has no far corner to calibrate on (the calibration divides by
\* M - 1), so the calibrated palettes of the model have a width M >= 2,
\* drawn from Ms.
Constructed(Ms) ==
    /\ constructed = TRUE
    /\ \E n \in 1..MaxN, m \in Ms, dims \in ChipDimsSet, sp \in Spacings :
          /\ InitExc(n, dims, sp[1], sp[2]) = ""
          /\ N = n
          /\ M = m
          /\ chip_dims = dims
          /\ sample_spacing = sp[1]
          /\ chip_spacing = sp[2]
    /\ calib_dir = EmptyDir
    /\ pc = "idle"
    /\ pending = None
    /\ responses = <<>>
    /\ stops = <<>>
    /\ scan = NoScan
    /\ xy = NoXy
    /\ sweep = NoSweep
    /\ seq = NoSeq
    /\ delay = NoDelay
    /\ daq = NoDaq
    /\ last = NoCall

Uncalibrated ==
    /\ calibrated = FALSE
    /\ start_pt = None
    /\ n_pt = None
    /\ m_pt = None
    /\ calibration_coordinates = None
    /\ N_hat = None
    /\ M_hat = None
    /\ NM_hat = None
    /\ length_calibrated = None

\* the calibration dialogue is explored on the widest palette
InitCalib ==
    /\ Constructed({MaxM})
    /\ Uncalibrated
    /\ coordinates = Vec(0, 0, 0)
    /\ setpoint = Vec(0, 0, 0)

\* calibration of a palette
Next ==
    /\ \/ \E pts \in CalibrationInputs, confirm_overwrite \in BOOLEAN,
             io_ok \in BOOLEAN :
             AcceptCalibration(pts[1], pts[2], pts[3], confirm_overwrite,
                               io_ok)
       \/ \E response \in Responses, io_ok \in BOOLEAN :
             Answer(response, io_ok)
       \/ \E confirm_overwrite \in BOOLEAN, io_ok \in BOOLEAN :
             LoadCalibration(confirm_overwrite, io_ok)
       \/ \E io_ok \in BOOLEAN : SaveCalibration(io_ok)
    /\ UNCHANGED <<stops, scan, xy, sweep, seq, delay, daq>>

Spec == InitCalib /\ [][Next]_vars

\* the motor positions of the model: the raw points and, on a palette with a
\* complete calibration, the positions of the samples
Positions ==
    RawPts \cup
    (IF calibrated /\ start_pt # None /\ n_pt # None /\ m_pt # None
     THEN {Locate2dVal(i, j) : i \in 0..(N - 1), j \in 0..(M - 1)}
     ELSE {})

\* a constructed palette that is uncalibrated or went through one
\* _accept_calibration, with the motors at rest anywhere
OneCalibration ==
    \/ Uncalibrated
    \/ \E pts \in CalibrationInputs :
       /\ calibrated = TRUE
       /\ start_pt = pts[1]
       /\ n_pt = pts[2]
       /\ m_pt = pts[3]
       /\ calibration_coordinates = pts
       /\ N_hat = NewNHat(None, pts[1], pts[2])
       /\ M_hat = NewMHat(None, pts[1], pts[2], pts[3])
       /\ NM_hat = NewNMHat(None, pts[1], pts[2], pts[3])
       /\ length_calibrated =
              NewLengthCalibrated(None, pts[1], pts[2], pts[3])

InitCalls ==
    /\ Constructed(2..MaxM)
    /\ OneCalibration
    /\ coordinates \in Positions
    /\ setpoint = coordinates

\* one call on that palette, and the motion it starts
NextCalls ==
    /\ \/ \E args \in MoveArgs : last = NoCall /\ Move(args)
       \/ \E c \in 1..3 : AxisArrive(c)
       \/ \E i \in -1..N, j \in -1..M : last = NoCall /\ Locate2d(i, j)
       \/ \E k \in -1..samples : last = NoCall /\ Locate1d(k)
       \/ last = NoCall /\ Index
       \/ last = NoCall /\ Position
       \/ last = NoCall /\ Remaining
       \/ last = NoCall /\ Chip
       \/ \E i \in -1..N : last = NoCall /\ ChipFromICall(i)
       \/ \E io_ok \in BOOLEAN : last = NoCall /\ SaveCalibration(io_ok)
    /\ UNCHANGED <<stops, scan, xy, sweep, seq, delay, daq>>

SpecCalls == InitCalls /\ [][NextCalls]_vars

(***************************************************************************)
(* One mv on a palette                                                     *)
(***************************************************************************)
\* arguments of mv: wrong counts, sample numbers and grid indices at and
\* beyond the ends, raw positions
MvArgs ==
    {<<>>, <<0, 0, 0, 0>>}
      \cup {<<k>> : k \in {-1, 0, samples - 1, samples}}
      \cup {<<i, j>> : i \in {0, N - 1, N}, j \in {M - 1}}
      \cup RawPts

\* exceptions the wait on a status can end with
WaitExcs == {"TimeoutError", "RuntimeError"}

NextMv ==
    /\ \/ \E args \in MvArgs : last = NoCall /\ Mv(args)
       \/ \E c \in 1..3 : AxisArrive(c) /\ UNCHANGED stops
       \/ MvDone
       \/ \E exc \in WaitExcs : MvWaitRaises(exc)
       \/ MvInterrupt
       \/ Stop
       \/ MvStopped
    /\ UNCHANGED <<scan, xy, sweep, seq, delay, daq>>

SpecMv == InitCalls /\ [][NextMv]_vars

(***************************************************************************)
(* mcgrane_scan and mcgrain_scan on the palette                            *)
(***************************************************************************)
MaxOuter == 2

MaxInner == 2

\* outer_start and outer_stop of the scans of the model
OuterRanges == {<<R(0), R(5)>>}

\* the o-th of the outer_steps equally spaced points from outer_start to
\* outer_stop, endpoints included
OuterPoint(o) ==
    IF scan.outer_steps = 1 THEN scan.outer_start
    ELSE RAdd(scan.outer_start,
              RDiv(RMul(R(o), RSub(scan.outer_stop, scan.outer_start)),
                   R(scan.outer_steps - 1)))

\* the lists of relative motions passed as inner_steps
InnerLists == {<<2, 1>>}

\* inner_steps as passed: an int or a list
InnerStepsInputs ==
    {<<"int", k>> : k \in 0..MaxInner} \cup {<<"list", l>> : l \in InnerLists}

\* the list of relative motions made of inner_steps: unit motions for an int
InnerStepsList(inner_steps) ==
    IF inner_steps[1] = "int" THEN [q \in 1..inner_steps[2] |-> 1]
    ELSE inner_steps[2]

\* the plan is called: the list of relative motions, the empty table, and the
\* run count of the sequencer
ScanStart(plan, rng, outer_steps, inner_steps, inner_step_size, use_sequencer) ==
    /\ constructed
    /\ pc = "idle"
    /\ scan.pc = "off"
    /\ scan' = [pc |-> "outer", plan |-> plan,
                outer_start |-> rng[1], outer_stop |-> rng[2],
                outer_steps |-> outer_steps,
                inner_steps |-> InnerStepsList(inner_steps),
                as_list |-> inner_steps[1] = "list",
                rel_moves |-> <<>>,
                inner_step_size |-> inner_step_size,
                use_sequencer |-> use_sequencer,
                o |-> 0, q |-> 0,
                outer_position |-> None,
                first_position |-> None,
                moves |-> 0,
                state_control |-> None,
                run_count_pattern |-> IF use_sequencer THEN <<0>> ELSE None,
                scan_positions |-> <<>>,
                exc |-> "", ended |-> FALSE]
    /\ UNCHANGED <<config, calib, coordinates, setpoint, calib_dir, pc,
                   pending, responses, stops, xy, sweep, seq, delay, daq, last>>

\* outer_per_step up to the inner list_scan: the outer motor is set to the
\* next point and waited for; after the last point the plan returns the table
OuterStep ==
    /\ scan.pc = "outer"
    /\ IF scan.o < scan.outer_steps
       THEN scan' = [scan EXCEPT !.pc = "inner", !.q = 0, !.rel_moves = <<>>,
                                 !.outer_position = OuterPoint(scan.o)]
       ELSE scan' = [scan EXCEPT !.pc = "done"]
    /\ UNCHANGED <<config, calib, coordinates, setpoint, calib_dir, pc,
                   pending, responses, stops, xy, sweep, seq, delay, daq, last>>

\* the exception of an inner step leaves mcgrane_scan through its except
\* clause when it is InvalidSampleError, and raises out of the plan otherwise
ScanRaise(exc) ==
    IF scan.plan = "mcgrane_scan" /\ exc = "InvalidSampleError"
    THEN [scan EXCEPT !.pc = "done", !.ended = TRUE]
    ELSE [scan EXCEPT !.pc = "done", !.exc = exc]

\* the relative motion asked of the palette by inner_per_step at the point
\* step of the inner list_scan
RelSet(step) == scan.inner_step_size

\* mcgrane_scan without its except clause
InnerMoveUncaught ==
    /\ scan.pc = "inner"
    /\ IF scan.q >= Len(scan.inner_steps)
       THEN /\ scan' = [scan EXCEPT !.pc = "outer", !.o = scan.o + 1]
            /\ UNCHANGED <<coordinates, setpoint, last>>
       ELSE IF IndexExc # ""
       THEN /\ scan' = [scan EXCEPT !.pc = "done", !.exc = IndexExc]
            /\ UNCHANGED <<coordinates, setpoint, last>>
       ELSE /\ Move1d("set",
                      <<PositionVal + RelSet(scan.inner_steps[scan.q + 1])>>,
                      PositionVal + RelSet(scan.inner_steps[scan.q + 1]))
            /\ scan' = IF last'.exc # ""
                       THEN [scan EXCEPT !.pc = "done", !.exc = last'.exc]
                       ELSE [scan EXCEPT !.pc = "wait",
                                         !.moves = scan.moves + 1,
                                         !.rel_moves =
                                             Append(@, RelSet(scan.inner_steps[scan.q + 1])),
                                         !.first_position =
                                             IF scan.first_position = None
                                             THEN <<PositionVal>>
                                             ELSE scan.first_position]
    /\ UNCHANGED <<config, calib, calib_dir, pc, pending, responses, stops, xy, sweep, seq, delay, daq>>

\* inner_per_step up to the wait on the palette: position is read, the goal
\* is logged, and the palette is set to position + inner_step_size; after the
\* last inner step the outer scan goes on
InnerMove ==
    /\ scan.pc = "inner"
    /\ IF scan.q >= Len(scan.inner_steps)
       THEN /\ scan' = [scan EXCEPT !.pc = "outer", !.o = scan.o + 1]
            /\ UNCHANGED <<coordinates, setpoint, last>>
       ELSE IF IndexExc # ""
       THEN /\ scan' = ScanRaise(IndexExc)
            /\ UNCHANGED <<coordinates, setpoint, last>>
       ELSE /\ Move1d("set",
                      <<PositionVal + RelSet(scan.inner_steps[scan.q + 1])>>,
                      PositionVal + RelSet(scan.inner_steps[scan.q + 1]))
            /\ scan' = IF last'.exc # ""
                       THEN ScanRaise(last'.exc)
                       ELSE [scan EXCEPT !.pc = "wait",
                                         !.moves = scan.moves + 1,
                                         !.rel_moves =
                                             Append(@, RelSet(scan.inner_steps[scan.q + 1])),
                                         !.first_position =
                                             IF scan.first_position = None
                                             THEN <<PositionVal>>
                                             ELSE scan.first_position]
    /\ UNCHANGED <<config, calib, calib_dir, pc, pending, responses, stops, xy, sweep, seq, delay, daq>>

\* the row of a step: the outer motor's position and the palette's readbacks
ScanRow ==
    <<scan.outer_position, ChipVal, PositionVal, IndexVal[1], IndexVal[2],
      coordinates[1], coordinates[2], coordinates[3]>>

\* the rest of inner_per_step, once the palette has arrived: the sequencer
\* is started and waited for, and the row of the step is appended
InnerRecord ==
    /\ scan.pc = "wait"
    /\ coordinates = setpoint
    /\ scan' = [scan EXCEPT
                   !.pc = "inner",
                   !.q = scan.q + 1,
                   !.state_control =
                       IF scan.use_sequencer THEN <<1>> ELSE scan.state_control,
                   !.scan_positions = Append(scan.scan_positions, ScanRow)]
    /\ UNCHANGED <<config, calib, coordinates, setpoint, calib_dir, pc,
                   pending, responses, stops, xy, sweep, seq, delay, daq, last>>

Plans == {"mcgrane_scan", "mcgrain_scan"}

NextScan ==
    \/ \E plan \in Plans, rng \in OuterRanges, outer_steps \in 1..MaxOuter,
          inner_steps \in InnerStepsInputs, inner_step_size \in {1, 2},
          use_sequencer \in BOOLEAN :
          ScanStart(plan, rng, outer_steps, inner_steps, inner_step_size,
                    use_sequencer)
    \/ OuterStep
    \/ InnerMove
    \/ \E c \in 1..3 : scan.pc = "wait" /\ AxisArrive(c)
                          /\ UNCHANGED <<stops, scan, xy, sweep, seq, delay, daq>>
    \/ InnerRecord

\* where the motors are when a scan starts: away from the grid, on the
\* first sample or on one of the last three
ScanPositions ==
    RawPts \cup
    (IF calibrated /\ start_pt # None /\ n_pt # None /\ m_pt # None
     THEN {Locate2dVal(Locate1dVal(k)[1], Locate1dVal(k)[2]) :
              k \in {0} \cup ((samples - 3)..(samples - 1))}
     ELSE {})

\* the scans start on the widest palette, uncalibrated or after one
\* _accept_calibration
InitScan ==
    /\ Constructed({MaxM})
    /\ OneCalibration
    /\ coordinates \in ScanPositions
    /\ setpoint = coordinates

SpecScan == InitScan /\ [][NextScan]_vars

(***************************************************************************)
(* Properties of single calls (checked under SpecCalls)                    *)
(***************************************************************************)
CompleteCalibration ==
    /\ calibrated
    /\ start_pt # None /\ n_pt # None /\ m_pt # None
    /\ N_hat # None /\ M_hat # None /\ NM_hat # None
    /\ length_calibrated # None

\* C1: snake-path round trip.  On a calibrated palette, for every sample
\* number k in [0, N*M), the grid index (i, j) returned by locate_1d(k) is
\* mapped back to k by the sample-number formula of position.
C1_RoundTrip ==
    (/\ last.op = "locate_1d"
     /\ calibrated
     /\ 0 <= last.args[1] /\ last.args[1] < samples)
    => /\ last.exc = ""
       /\ SampleOf(last.ret[1], last.ret[2]) = last.args[1]

\* a sample of an odd (reversed) row went through the round trip
C1_Witness ==
    /\ last.op = "locate_1d"
    /\ calibrated
    /\ last.exc = ""
    /\ last.args[1] = M
    /\ last.ret = <<1, M - 1>>
    /\ SampleOf(1, M - 1) = M

AdjacentCells(a, b) ==
    \/ a[1] = b[1] /\ Abs(a[2] - b[2]) = 1
    \/ b[1] = a[1] + 1 /\ a[2] = b[2]

\* C2: snake adjacency.  For every k in [0, N*M - 1), locate_1d(k) and
\* locate_1d(k + 1) are one grid step apart: in the same row the column changes
\* by exactly 1, at a row boundary the row increases by 1 and the column stays.
C2_SnakeAdjacency ==
    (/\ last.op = "locate_1d"
     /\ calibrated
     /\ 0 <= last.args[1] /\ last.args[1] < samples - 1)
    => /\ last.exc = ""
       /\ AdjacentCells(last.ret, Locate1dVal(last.args[1] + 1))
       /\ (last.args[1] + 1) % M = 0
             => Locate1dVal(last.args[1] + 1) = <<last.ret[1] + 1, last.ret[2]>>
       /\ (last.args[1] + 1) % M # 0
             => /\ Locate1dVal(last.args[1] + 1)[1] = last.ret[1]
                /\ Abs(Locate1dVal(last.args[1] + 1)[2] - last.ret[2]) = 1

\* the last sample of row 0 is followed by the sample below it
C2_Witness ==
    /\ last.op = "locate_1d"
    /\ calibrated
    /\ last.args[1] = M - 1
    /\ last.ret = <<0, M - 1>>
    /\ Locate1dVal(M) = <<1, M - 1>>
    /\ Locate1dVal(M + 1) = <<1, M - 2>>

GuardedReads ==
    {"locate_1d", "locate_2d", "index", "position", "remaining", "chip",
     "save_calibration"}

\* C3: uncalibrated guard.  On a palette that was never calibrated, locate_1d,
\* locate_2d, the moves by sample number and by grid index, index, position,
\* remaining, chip and save_calibration all fail with NotCalibratedError, and
\* no motor is commanded.
C3_UncalibratedGuard ==
    (/\ ~calibrated
     /\ \/ last.op \in GuardedReads
        \/ last.op = "move" /\ Len(last.args) \in {1, 2})
    => /\ last.exc = "NotCalibratedError"
       /\ last.cmds = <<>>
       /\ setpoint = coordinates

\* C4: forward bounds.  On a calibrated palette move(k) with k outside
\* [0, N*M) and move(i, j) with i outside [0, N) or j outside [0, M) raise
\* InvalidSampleError and no move request reaches a motor.
C4_ForwardBounds ==
    (/\ calibrated
     /\ last.op = "move"
     /\ \/ /\ Len(last.args) = 1
           /\ ~(0 <= last.args[1] /\ last.args[1] < samples)
        \/ /\ Len(last.args) = 2
           /\ \/ ~(0 <= last.args[1] /\ last.args[1] < N)
              \/ ~(0 <= last.args[2] /\ last.args[2] < M))
    => /\ last.exc = "InvalidSampleError"
       /\ last.cmds = <<>>
       /\ setpoint = coordinates

\* move(N, M - 1), one row past the last one, was refused
C4_Witness ==
    /\ CompleteCalibration
    /\ last.op = "move"
    /\ last.args = <<N, M - 1>>
    /\ last.exc = "InvalidSampleError"
    /\ last.cmds = <<>>

\* C5: inverse clamping.  On a calibrated palette the index readback is
\* within [0, N-1] x [0, M-1] wherever the motors are.
C5_InverseClamping ==
    (CompleteCalibration /\ last.op = "index")
    => /\ last.exc = ""
       /\ 0 <= last.ret[1] /\ last.ret[1] <= N - 1
       /\ 0 <= last.ret[2] /\ last.ret[2] <= M - 1

AffineCalibration ==
    /\ CompleteCalibration
    /\ start_pt = Vec(0, 0, 0)
    /\ n_pt = Vec(N - 1, 0, 0)
    /\ m_pt = Vec(0, M - 1, 0)
    /\ chip_spacing = sample_spacing

\* C10: affine consistency.  Calibrated with start_pt = (0,0,0),
\* n_pt = (N-1,0,0), m_pt = (0,M-1,0) and chip_spacing = sample_spacing,
\* locate_2d(i, j) = (i, j, 0) for every 0 <= i < N, 0 <= j < M.
C10_AffineConsistency ==
    (/\ AffineCalibration
     /\ last.op = "locate_2d"
     /\ 0 <= last.args[1] /\ last.args[1] < N
     /\ 0 <= last.args[2] /\ last.args[2] < M)
    => /\ last.exc = ""
       /\ last.ret = Vec(last.args[1], last.args[2], 0)

\* the far sample of a palette of two chips was located
C10_Witness ==
    /\ AffineCalibration
    /\ num_chips = 1
    /\ last.op = "locate_2d"
    /\ last.args = <<N - 1, M - 1>>
    /\ ChipFromI(N - 1) = <<1>>
    /\ last.ret = Vec(N - 1, M - 1, 0)

(***************************************************************************)
(* Properties of construction (SpecConstruct) and calibration (Spec)       *)
(***************************************************************************)
\* a call that may set the calibration runs from an idle palette to an idle
\* palette: no prompt was shown, so no confirmation was given
UnpromptedStep == pc = "idle" /\ pc' = "idle"

C7_OverwriteDeclined ==
    [][(/\ pc \in {"prompt", "reprompt"}
        /\ Len(responses') = Len(responses) + 1
        /\ Lower(responses'[Len(responses')]) = "n")
       => /\ pc' = "idle"
          /\ last'.exc = ""
          /\ UNCHANGED <<calibrated, start_pt, n_pt, m_pt,
                         calibration_coordinates, N_hat, M_hat, NM_hat,
                         length_calibrated>>
          /\ UNCHANGED calib_dir]_vars

\* a calibration with other points was declined after an invalid answer
C7_Witness ==
    /\ pc = "idle"
    /\ CompleteCalibration
    /\ last.op = "_accept_calibration"
    /\ last.args[4] = TRUE
    /\ last.args[1] # None
    /\ last.args[1] # start_pt
    /\ Len(responses) = 2
    /\ Lower(responses[1]) \notin {"y", "n"}
    /\ Lower(responses[2]) = "n"

\* C8: atomic calibration.  In every state either the palette is uncalibrated
\* and no calibration attribute is set, or it is calibrated and all of them
\* are set and derived from the same three points.
C8_AtomicCalibration ==
    \/ /\ ~calibrated
       /\ start_pt = None /\ n_pt = None /\ m_pt = None
       /\ N_hat = None /\ M_hat = None /\ NM_hat = None
       /\ length_calibrated = None
    \/ /\ CompleteCalibration
       /\ N_hat = NHatOf(start_pt, n_pt)
       /\ M_hat = MHatOf(start_pt, m_pt)
       /\ NM_hat = <<N_hat, M_hat>>
       /\ length_calibrated = LengthCalibratedOf(start_pt, n_pt)

\* C9, as claimed: __init__ fails with InputError, leaving no palette, when
\* the chip dimensions do not sum to N, and succeeds whenever they do.
C9_ConstructionCheck ==
    last.op = "__init__"
    => /\ last.args[1] # SumSeq(last.args[3])
          => last.exc = "InputError" /\ ~constructed
       /\ last.args[1] = SumSeq(last.args[3])
          => last.exc = "" /\ constructed

\* C9, amended: __init__ fails with InputError, leaving no palette, when the
\* chip dimensions do not sum to N; when they do it succeeds if the nominal
\* length (N - num_chips - 1) * sample_spacing + num_chips * chip_spacing is
\* not zero, and fails with ZeroDivisionError if it is (N = 1, chip_dims [1]).
C9_ConstructionCheckAmended ==
    last.op = "__init__"
    => /\ last.args[1] # SumSeq(last.args[3])
          => last.exc = "InputError" /\ ~constructed
       /\ (/\ last.args[1] = SumSeq(last.args[3])
           /\ LengthOf(last.args[1], last.args[3], last.args[4],
                       last.args[5]) # R(0))
          => /\ last.exc = ""
             /\ constructed
             /\ N = last.args[1]
             /\ chip_dims = last.args[3]
       /\ (/\ last.args[1] = SumSeq(last.args[3])
           /\ LengthOf(last.args[1], last.args[3], last.args[4],
                       last.args[5]) = R(0))
          => last.exc = "ZeroDivisionError" /\ ~constructed

\* a palette whose two chips hold fewer samples than N was refused
C9_Witness ==
    /\ last.op = "__init__"
    /\ Len(last.args[3]) = 2
    /\ SumSeq(last.args[3]) < last.args[1]
    /\ last.exc = "InputError"
    /\ ~constructed

(***************************************************************************)
(* Properties of the chip correction and of the classifiers (SpecCalls)    *)
(***************************************************************************)
\* the long axis of the calibration points along +x and chips further apart
\* than samples
PositiveLongAxis ==
    /\ CompleteCalibration
    /\ RGt(VSub(n_pt, start_pt)[1], R(0))
    /\ RGt(chip_spacing, sample_spacing)

\* C11: chip-correction monotonicity.  With the long axis along +x and
\* chip_spacing > sample_spacing, for every j and every i with i, i + 1 in
\* [0, N) the first coordinate of locate_2d(i + 1, j) exceeds that of
\* locate_2d(i, j); the step is the first coordinate of N_hat inside a chip
\* and is larger by exactly chip_factor * (n_pt - start_pt)[1] when i + 1 is
\* the first sample of the next chip.
C11_ChipMonotonicity ==
    (/\ last.op = "locate_2d"
     /\ PositiveLongAxis
     /\ 0 <= last.args[1] /\ last.args[1] + 1 < N)
    => LET i == last.args[1]
           j == last.args[2]
           step == RSub(Locate2dVal(i + 1, j)[1], last.ret[1])
           gap == RMul(chip_factor, VSub(n_pt, start_pt)[1])
       IN  /\ last.exc = ""
           /\ RGt(step, R(0))
           /\ ChipFromI(i + 1) = ChipFromI(i) => step = N_hat[1]
           /\ ChipFromI(i + 1)[1] = ChipFromI(i)[1] + 1
                 => step = RAdd(N_hat[1], gap)
           /\ ChipFromI(i + 1)[1] - ChipFromI(i)[1] \in {0, 1}

\* locate_2d of the last sample of a chip, on a palette whose next chip lies
\* a real gap further
C11_Witness ==
    /\ last.op = "locate_2d"
    /\ last.exc = ""
    /\ PositiveLongAxis
    /\ 0 <= last.args[1] /\ last.args[1] + 1 < N
    /\ ChipFromI(last.args[1] + 1)[1] = ChipFromI(last.args[1])[1] + 1
    /\ RGt(RMul(chip_factor, VSub(n_pt, start_pt)[1]), R(0))
    /\ RSub(Locate2dVal(last.args[1] + 1, last.args[2])[1], last.ret[1])
          = RAdd(N_hat[1], RMul(chip_factor, VSub(n_pt, start_pt)[1]))

\* C12: path indexer bounds.  On a calibrated palette locate_1d(k) fails with
\* InvalidSampleError for every k outside [0, N*M), rather than returning a
\* grid index outside the palette.
C12_PathIndexerBounds ==
    (/\ last.op = "locate_1d"
     /\ calibrated
     /\ (last.args[1] < 0 \/ last.args[1] >= samples))
    => /\ last.exc = "InvalidSampleError"
       /\ last.ret = <<>>

\* C13: chip classifier by coordinate.  On a calibrated palette, for every i
\* in [0, N) _chip_from_i(i) returns the unique zero-based chip c with
\* sum(chip_dims[:c]) <= i < sum(chip_dims[:c+1]); for every i outside [0, N)
\* it fails instead of returning a chip number or an empty value.
C13_ChipFromI ==
    (last.op = "_chip_from_i" /\ calibrated)
    => LET i == last.args[1]
       IN  IF 0 <= i /\ i < N
           THEN /\ last.exc = ""
                /\ Len(last.ret) = 1
                /\ last.ret[1] \in 0..num_chips
                /\ SumSeq(SubSeq(chip_dims, 1, last.ret[1])) <= i
                /\ i < SumSeq(SubSeq(chip_dims, 1, last.ret[1] + 1))
           ELSE last.exc # ""

\* the cumulative boundary that ends chip c, as a fraction of N; 0 for c = -1
ChipBoundary(c) == Norm(SumSeq(SubSeq(chip_dims, 1, c + 1)), N)

\* C14: chip classifier by fraction.  For every fractional position, below 0
\* and above 1 included, the chip readback returns an integer in
\* [0, num_chips]; for a fraction strictly between two consecutive cumulative
\* chip boundaries it returns the chip whose range contains that fraction.
C14_ChipFromFraction ==
    (last.op = "chip" /\ last.exc = "")
    => LET pct == PercentComplete(coordinates)
       IN  /\ last.ret[1] \in 0..num_chips
           /\ \A c \in 0..num_chips :
                 (RGt(pct, ChipBoundary(c - 1)) /\ RGt(ChipBoundary(c), pct))
                    => last.ret[1] = c

\* the readback of a position inside the range of a chip that is neither the
\* first nor reached by clamping
C14_Witness ==
    /\ last.op = "chip"
    /\ last.exc = ""
    /\ last.ret[1] >= 1
    /\ RGt(PercentComplete(coordinates), ChipBoundary(last.ret[1] - 1))
    /\ RGt(ChipBoundary(last.ret[1]), PercentComplete(coordinates))
    /\ RGt(ChipBoundary(last.ret[1] - 1), R(0))

(***************************************************************************)
(* Properties of the moves                                                 *)
(***************************************************************************)
\* C15: move dispatch by arity.  On a palette with a complete calibration,
\* move(k) with k in [0, N*M) commands the motors to
\* locate_2d(locate_1d(k)), move(i, j) with (i, j) in the grid to
\* locate_2d(i, j), move(x, y, z) to exactly (x, y, z); with any other number
\* of arguments (zero, or more than three) it raises ValueError and commands
\* no motor.
C15_MoveDispatch ==
    (last.op = "move" /\ CompleteCalibration)
    => LET a == last.args
       IN  /\ (Len(a) = 1 /\ 0 <= a[1] /\ a[1] < samples)
                 => /\ last.exc = ""
                    /\ last.cmds = Locate2dVal(Locate1dVal(a[1])[1],
                                               Locate1dVal(a[1])[2])
           /\ (Len(a) = 2 /\ 0 <= a[1] /\ a[1] < N /\ 0 <= a[2] /\ a[2] < M)
                 => /\ last.exc = ""
                    /\ last.cmds = Locate2dVal(a[1], a[2])
           /\ Len(a) = 3 => last.exc = "" /\ last.cmds = a
           /\ Len(a) \notin 1..3
                 => last.exc = "ValueError" /\ last.cmds = <<>>

(***************************************************************************)
(* Properties of mv (checked under SpecMv)                                 *)
(***************************************************************************)
\* mv comes back from an interrupted wait
InterruptedReturn == pc = "mv_stop" /\ pc' = "idle"

\* C17: stop on interrupt.  If a KeyboardInterrupt arrives while mv is
\* blocked waiting for a move to complete, a stop command is issued to each
\* of the x, y and z motors, and only after that does the interrupt
\* propagate to the caller of mv.
C17_StopThenPropagate ==
    [][InterruptedReturn
          => /\ stops' = <<1, 2, 3>>
             /\ last'.op = "mv"
             /\ last'.exc = "KeyboardInterrupt"]_vars

\* C17 as the code has it: after a KeyboardInterrupt during the wait, mv
\* stops the x, y and z motors, in that order, each where it is, and then
\* returns None: the interrupt does not reach the caller of mv.  No motor is
\* stopped unless the wait was interrupted.
C17_StopThenReturn ==
    [][/\ InterruptedReturn
          => /\ stops' = <<1, 2, 3>>
             /\ last'.op = "mv"
             /\ last'.exc = ""
             /\ last'.ret = <<>>
       /\ stops' # stops => pc = "mv_stop" \/ stops' = <<>>]_vars

\* mv returned after an interrupt that stopped the motors short of the
\* position it had commanded
C17_Witness ==
    /\ pc = "idle"
    /\ last.op = "mv"
    /\ last.exc = ""
    /\ stops = <<1, 2, 3>>
    /\ setpoint = coordinates
    /\ coordinates # last.cmds

(***************************************************************************)
(* Properties of the scans (checked under SpecScan)                        *)
(***************************************************************************)
\* the step in which the set of an inner step of mcgrane_scan raises
\* InvalidSampleError
EndOfPalette ==
    /\ scan.pc = "inner"
    /\ scan.plan = "mcgrane_scan"
    /\ scan'.pc = "done"
    /\ last'.op = "set"
    /\ last'.exc = "InvalidSampleError"

\* C18: end of palette in a scan.  When an inner step of mcgrane_scan would
\* move the palette past the last sample (InvalidSampleError), the scan stops
\* without raising, no further outer or inner step is executed, the palette
\* stays where the last completed step left it, and the table holds exactly
\* one row per inner step that completed before.
C18_EndOfPalette ==
    [][/\ EndOfPalette
          => /\ scan'.exc = ""
             /\ scan'.ended
             /\ last'.cmds = <<>>
             /\ UNCHANGED <<coordinates, setpoint>>
             /\ coordinates = setpoint
             /\ scan'.scan_positions = scan.scan_positions
             /\ Len(scan.scan_positions) = scan.moves
             /\ Len(scan.scan_positions) = scan.o * Len(scan.inner_steps) + scan.q
             /\ scan.scan_positions # <<>>
                   => LET row == scan.scan_positions[Len(scan.scan_positions)]
                      IN  /\ <<row[6], row[7], row[8]>> = coordinates
                          /\ row[3] = PositionVal
       /\ scan.pc = "done" => UNCHANGED vars]_vars

\* mcgrane_scan reached the end of the palette after a completed inner step
\* and with outer steps still to go
C18_Witness ==
    /\ scan.pc = "done"
    /\ scan.plan = "mcgrane_scan"
    /\ scan.ended
    /\ scan.exc = ""
    /\ last.exc = "InvalidSampleError"
    /\ Len(scan.scan_positions) >= 1
    /\ scan.o + 1 < scan.outer_steps
    /\ scan.scan_positions[Len(scan.scan_positions)][3] = samples - 1

\* mcgrain_scan, called with the sequencer in use, at least two outer points
\* and at least one inner step, ran through all its steps
RanToCompletion ==
    /\ scan.pc = "done"
    /\ scan.plan = "mcgrain_scan"
    /\ scan.exc = ""
    /\ scan.use_sequencer
    /\ scan.outer_steps >= 2
    /\ Len(scan.inner_steps) >= 1
    /\ ~scan.as_list

\* C19: scan extent.  After mcgrain_scan(outer, inner, seq, start, stop, P, Q)
\* with integer Q (here P >= 2, Q >= 1) has run to completion, the outer motor
\* is at stop, the inner motor has advanced by exactly P*Q*inner_step_size
\* from where it started, and the start control of the sequencer has been
\* set to 1.
C19_ScanExtent ==
    RanToCompletion
    => /\ scan.outer_position = scan.outer_stop
       /\ scan.state_control = <<1>>
       /\ IndexExc = ""
       /\ PositionVal
             = scan.first_position[1]
               + scan.outer_steps * Len(scan.inner_steps)
                   * scan.inner_step_size

(***************************************************************************)
(* xy_sequencer                                                            *)
(***************************************************************************)
MaxStrokes == 3

\* direction after a stroke, never flipped
NextDirectionKept(direction, both_directions) == direction

\* direction after a stroke: flipped when both directions are used
NextDirection(direction, both_directions) ==
    IF both_directions THEN direction * (-1) ELSE direction

\* one pass of the loop: the vertical stroke, the stroke back when only one
\* direction is allowed, and the horizontal stroke
XyStroke(coord_list, direction, stroke_height, stroke_spacing, both_directions) ==
    LET first == Append(coord_list,
                        <<coord_list[Len(coord_list)][1],
                          coord_list[Len(coord_list)][2]
                             + direction * stroke_height>>)
        second == IF ~both_directions
                  THEN Append(first,
                              <<first[Len(first)][1],
                                first[Len(first)][2]
                                   - NextDirection(direction, both_directions)
                                        * stroke_height>>)
                  ELSE first
    IN  Append(second, <<second[Len(second)][1] + stroke_spacing,
                         second[Len(second)][2]>>)

\* the loop over range(n_strokes)
RECURSIVE XyLoop(_, _, _, _, _, _)
XyLoop(coord_list, direction, todo, stroke_height, stroke_spacing, both_directions) ==
    IF todo <= 0 THEN coord_list
    ELSE XyLoop(XyStroke(coord_list, direction, stroke_height, stroke_spacing,
                         both_directions),
                NextDirection(direction, both_directions), todo - 1,
                stroke_height, stroke_spacing, both_directions)

\* xy_sequencer: the list returned
XyCoordList(start_x, start_y, stroke_height, stroke_spacing, n_strokes, both_directions) ==
    LET coord_list == XyLoop(<<<<start_x, start_y>>>>, 1, n_strokes,
                             stroke_height, stroke_spacing, both_directions)
    IN  Append(coord_list, <<coord_list[1][1] + n_strokes * stroke_spacing,
                             coord_list[1][2]>>)

XySequencer(start_x, start_y, stroke_height, stroke_spacing, n_strokes, both_directions) ==
    /\ ~xy.called
    /\ xy' = [called |-> TRUE, start_x |-> start_x, start_y |-> start_y,
              stroke_height |-> stroke_height,
              stroke_spacing |-> stroke_spacing, n_strokes |-> n_strokes,
              both_directions |-> both_directions,
              coord_list |-> XyCoordList(start_x, start_y, stroke_height,
                                         stroke_spacing, n_strokes,
                                         both_directions)]
    /\ UNCHANGED <<config, calib, coordinates, setpoint, calib_dir, pc,
                   pending, responses, stops, scan, sweep, seq, delay,
                   daq, last>>

\* start points, stroke heights and stroke spacings of the calls
XyStarts == {<<0, 0>>, <<1, -2>>}

XyHeights == {-2, 0, 3}

XySpacings == {-1, 0, 1}

NextXy ==
    \E start \in XyStarts, stroke_height \in XyHeights,
       stroke_spacing \in XySpacings, n_strokes \in 0..MaxStrokes,
       both_directions \in BOOLEAN :
       XySequencer(start[1], start[2], stroke_height, stroke_spacing,
                   n_strokes, both_directions)

SpecXy == Init /\ [][NextXy]_vars

(***************************************************************************)
(* Properties of xy_sequencer (checked under SpecXy)                       *)
(***************************************************************************)
\* C20: xy_sequencer path.  For every n_strokes >= 0 the returned list starts
\* with (start_x, start_y) and ends with
\* (start_x + n_strokes*stroke_spacing, start_y); with both_directions=True it
\* has 2*n_strokes+2 points in which stroke s ends at start_y+stroke_height
\* for even s and at start_y for odd s, each followed by a horizontal step of
\* stroke_spacing; with both_directions=False it has 3*n_strokes+2 points in
\* which every stroke goes to start_y+stroke_height and back to start_y
\* before the horizontal step; every consecutive pair of points differs in at
\* most one coordinate.
C20_XyPath ==
    xy.called
    => LET l == xy.coord_list
           n == xy.n_strokes
           x0 == xy.start_x
           y0 == xy.start_y
           h == xy.stroke_height
           sp == xy.stroke_spacing
       IN  /\ l[1] = <<x0, y0>>
           /\ l[Len(l)] = <<x0 + n * sp, y0>>
           /\ xy.both_directions
                 => /\ Len(l) = 2 * n + 2
                    /\ \A s \in 0..(n - 1) :
                          /\ l[2 * s + 2]
                                = <<x0 + s * sp,
                                    IF s % 2 = 0 THEN y0 + h ELSE y0>>
                          /\ l[2 * s + 3]
                                = <<l[2 * s + 2][1] + sp, l[2 * s + 2][2]>>
           /\ ~xy.both_directions
                 => /\ Len(l) = 3 * n + 2
                    /\ \A s \in 0..(n - 1) :
                          /\ l[3 * s + 2] = <<x0 + s * sp, y0 + h>>
                          /\ l[3 * s + 3] = <<x0 + s * sp, y0>>
                          /\ l[3 * s + 4] = <<x0 + (s + 1) * sp, y0>>
           /\ \A k \in 1..(Len(l) - 1) :
                 l[k][1] = l[k + 1][1] \/ l[k][2] = l[k + 1][2]

\* an S-shaped path of an odd number of strokes, at least three, whose last
\* point comes back down from the top of the last stroke
C20_Witness ==
    /\ xy.called
    /\ xy.both_directions
    /\ xy.n_strokes >= 3
    /\ xy.n_strokes % 2 = 1
    /\ xy.stroke_height # 0
    /\ xy.stroke_spacing # 0
    /\ Len(xy.coord_list) = 2 * xy.n_strokes + 2
    /\ xy.coord_list[Len(xy.coord_list) - 1][2]
          = xy.start_y + xy.stroke_height

(***************************************************************************)
(* rel_smooth_sweep                                                        *)
(***************************************************************************)
\* every variable but sweep
notSweep == <<config, calib, coordinates, setpoint, calib_dir, pc, pending,
              responses, stops, scan, xy, seq, delay, daq, last>>

\* the shutter as commanded at the head of the loop body, the shutter never
\* inserted for a return stroke
ShutterAtLineKeptOut(shutter, line_no, both_directions) ==
    IF ~both_directions /\ line_no % 3 = 0 THEN "OUT" ELSE shutter

\* the shutter as commanded at the head of the loop body for line line_no
\* (counted from 0)
ShutterAtLine(shutter, line_no, both_directions) ==
    IF both_directions THEN shutter
    ELSE IF line_no % 3 = 0 THEN "OUT"
    ELSE IF line_no % 3 = 2 THEN "IN"
    ELSE shutter

\* the plan up to the loop: the motors are read, the path is computed and the
\* shutter is removed
SweepStart(start, stroke_height, stroke_spacing, n_strokes, both_directions) ==
    /\ sweep.pc = "off"
    /\ sweep' = [pc |-> "loop",
                 mot_x |-> start[1], mot_y |-> start[2],
                 stroke_height |-> stroke_height,
                 stroke_spacing |-> stroke_spacing,
                 n_strokes |-> n_strokes,
                 both_directions |-> both_directions,
                 coord_list |-> XyCoordList(start[1], start[2], stroke_height,
                                            stroke_spacing, n_strokes,
                                            both_directions),
                 line_no |-> 0,
                 shutter |-> "OUT",
                 moves |-> <<>>]
    /\ UNCHANGED notSweep

\* one pass of the loop: the shutter command of the line, then the move to the
\* line, waited for
SweepLine ==
    /\ sweep.pc = "loop"
    /\ sweep.line_no < Len(sweep.coord_list)
    /\ LET line == sweep.coord_list[sweep.line_no + 1]
           shutter == ShutterAtLine(sweep.shutter, sweep.line_no,
                                    sweep.both_directions)
       IN  sweep' = [sweep EXCEPT
                       !.shutter = shutter,
                       !.mot_x = line[1],
                       !.mot_y = line[2],
                       !.moves = Append(@, [from |-> <<sweep.mot_x,
                                                       sweep.mot_y>>,
                                            to |-> line,
                                            shutter |-> shutter]),
                       !.line_no = @ + 1]
    /\ UNCHANGED notSweep

\* a move fails: the exception is thrown into the plan at its yield, and
\* nothing in the plan catches it
SweepLineFails ==
    /\ sweep.pc = "loop"
    /\ sweep.line_no < Len(sweep.coord_list)
    /\ sweep' = [sweep EXCEPT
                    !.shutter = ShutterAtLine(sweep.shutter, sweep.line_no,
                                              sweep.both_directions),
                    !.pc = "failed"]
    /\ UNCHANGED notSweep

\* after the loop: the shutter is inserted
SweepEnd ==
    /\ sweep.pc = "loop"
    /\ sweep.line_no = Len(sweep.coord_list)
    /\ sweep' = [sweep EXCEPT !.shutter = "IN", !.pc = "done"]
    /\ UNCHANGED notSweep

NextSweep ==
    \/ \E start \in XyStarts, stroke_height \in XyHeights,
          stroke_spacing \in XySpacings, n_strokes \in 0..MaxStrokes,
          both_directions \in BOOLEAN :
          SweepStart(start, stroke_height, stroke_spacing, n_strokes,
                     both_directions)
    \/ SweepLine
    \/ SweepLineFails
    \/ SweepEnd

SpecSweep == Init /\ [][NextSweep]_vars

(***************************************************************************)
(* Properties of rel_smooth_sweep (checked under SpecSweep)                *)
(***************************************************************************)
\* C21: shutter protocol of rel_smooth_sweep.  The shutter is removed before
\* the first motor move of the plan and is inserted once the plan has made its
\* last move, so the plan ends with the shutter inserted; with
\* both_directions=False the shutter is inserted before every return stroke
\* (the move back to the starting height) and removed again before the next
\* forward stroke, so no return stroke is made with the shutter out.
C21_ShutterProtocol ==
    sweep.pc # "off"
    => /\ Len(sweep.moves) >= 1 => sweep.moves[1].shutter = "OUT"
       /\ sweep.pc = "loop" /\ sweep.moves = <<>> => sweep.shutter = "OUT"
       /\ sweep.pc = "done"
             => /\ sweep.shutter = "IN"
                /\ Len(sweep.moves) = Len(sweep.coord_list)
       /\ ~sweep.both_directions
             => \A k \in 1..Len(sweep.moves) :
                   \* the return stroke of stroke s is move 3s+3, its forward
                   \* stroke is move 3s+2
                   /\ (k % 3 = 0) => sweep.moves[k].shutter = "IN"
                   /\ (k % 3 = 2 /\ k < Len(sweep.coord_list))
                         => sweep.moves[k].shutter = "OUT"

\* a completed comb of at least two strokes of non-zero height: return
\* strokes were made, and a forward stroke followed a return stroke
C21_Witness ==
    /\ sweep.pc = "done"
    /\ ~sweep.both_directions
    /\ sweep.n_strokes >= 2
    /\ sweep.stroke_height # 0
    /\ sweep.moves[3].to[2] = sweep.moves[1].to[2]
    /\ sweep.moves[3].from[2] # sweep.moves[3].to[2]
    /\ sweep.moves[5].shutter = "OUT"

\* C22: inner step list.  When inner_steps is passed to the mcgrain/mcgrane
\* scan as a list, the relative motions performed by the inner motor at every
\* outer step are the values of that list, in order (the n-th inner move of
\* each outer step is a relative move by inner_steps[n]).
C22_InnerStepList ==
    (scan.pc # "off" /\ scan.as_list)
    => \A n \in 1..Len(scan.rel_moves) : scan.rel_moves[n] = scan.inner_steps[n]

(***************************************************************************)
(* Sequencer.set                                                           *)
(***************************************************************************)
MaxSets == 3

\* every variable but seq
notSeq == <<config, calib, coordinates, setpoint, calib_dir, pc, pending,
            responses, stops, scan, xy, sweep, delay, daq, last>>

\* values of the play-status signal
Stopped == 0

Playing == 2

\* a Sequencer connected to an event sequencer that is stopped
SeqConnected ==
    [pc |-> "on",
     value |-> None,            \* the value of the last set
     status |-> "none",         \* the status the last set returned
     cb |-> "idle",             \* position of the callback cb
     puts |-> <<>>,             \* puts to PLYCTL not yet processed
     play_status |-> Stopped,   \* PLSTAT
     updates |-> FALSE,         \* an update of PLSTAT is to be delivered
     played |-> FALSE,          \* a sequence started since the set
     done_after_play |-> FALSE, \* played, when the status completed
     sets |-> 0]

SeqConnect ==
    /\ seq.pc = "off"
    /\ seq' = SeqConnected
    /\ UNCHANGED notSeq

\* the sequencer after set(value): the put to the start control, then the
\* SubscriptionStatus on play_status, which runs cb at once: cb enters its
\* sleep
SeqSetTo(value) ==
    [seq EXCEPT !.value = <<value>>,
                !.status = "pending",
                !.cb = "sleep",
                !.puts = Append(@, value),
                !.played = FALSE,
                !.done_after_play = FALSE,
                !.sets = @ + 1]

\* Sequencer.set(value), called when no status is being waited for
SeqSet(value) ==
    /\ seq.pc = "on"
    /\ seq.status # "pending"
    /\ seq.cb = "idle"
    /\ seq.sets < MaxSets
    /\ seq' = SeqSetTo(value)
    /\ UNCHANGED notSeq

\* cb after its sleep: play_status is read, and the status completes when it
\* is 0
SeqCbCheck ==
    /\ seq.pc = "on"
    /\ seq.cb = "sleep"
    /\ seq' = [seq EXCEPT
                  !.cb = "idle",
                  !.status = IF seq.status = "pending"
                                /\ seq.play_status = Stopped
                             THEN "done" ELSE @,
                  !.done_after_play = IF seq.status = "pending"
                                         /\ seq.play_status = Stopped
                                      THEN seq.played ELSE @]
    /\ UNCHANGED notSeq

\* the updates of play_status are delivered: cb, which does not look at the
\* value delivered, is run when the status is still subscribed
SeqCbUpdate ==
    /\ seq.pc = "on"
    /\ seq.cb = "idle"
    /\ seq.updates
    /\ seq' = [seq EXCEPT !.updates = FALSE,
                          !.cb = IF seq.status = "pending" THEN "sleep"
                                 ELSE @]
    /\ UNCHANGED notSeq

\* the event sequencer processes a put to its start control: 1 starts the
\* sequence when it is stopped, 0 stops it when it is playing
IocPut ==
    /\ seq.pc = "on"
    /\ seq.puts # <<>>
    /\ seq' = IF Head(seq.puts) = 1 /\ seq.play_status = Stopped
              THEN [seq EXCEPT !.puts = Tail(@),
                               !.play_status = Playing,
                               !.updates = TRUE,
                               !.played = TRUE]
              ELSE IF Head(seq.puts) = 0 /\ seq.play_status = Playing
              THEN [seq EXCEPT !.puts = Tail(@),
                               !.play_status = Stopped,
                               !.updates = TRUE]
              ELSE [seq EXCEPT !.puts = Tail(@)]
    /\ UNCHANGED notSeq

\* the sequence, set to run once, comes to its end
IocFinish ==
    /\ seq.pc = "on"
    /\ seq.play_status = Playing
    /\ seq' = [seq EXCEPT !.play_status = Stopped, !.updates = TRUE]
    /\ UNCHANGED notSeq

NextSeq ==
    \/ SeqConnect
    \/ \E value \in {0, 1} : SeqSet(value)
    \/ SeqCbCheck
    \/ SeqCbUpdate
    \/ IocPut
    \/ IocFinish

SpecSeq == Init /\ [][NextSeq]_vars

(***************************************************************************)
(* Properties of Sequencer.set (checked under SpecSeq)                     *)
(***************************************************************************)
\* C23: sequencer completion.  The status returned by Sequencer.set(1) does
\* not complete until the started sequence has actually played and the
\* play-status signal has afterwards returned to 0 (stopped); under every
\* interleaving of the put to the start control, the subscription, and the
\* play-status updates, it never completes on a play-status value of 0
\* observed before the sequence started playing.
C23_SequencerCompletion ==
    (seq.pc = "on" /\ seq.value = <<1>> /\ seq.status = "done")
    => seq.done_after_play

(***************************************************************************)
(* a2_daq_scan and delay_scan                                              *)
(***************************************************************************)
MaxNum == 2

\* every variable but daq and delay
notDaq == <<config, calib, coordinates, setpoint, calib_dir, pc, pending,
            responses, stops, scan, xy, sweep, seq, last>>

\* the k-th (from 0) of the num points of inner_product_scan from start to
\* stop, endpoints included
ScanPoint(start, stop, num, k) ==
    IF num = 1 THEN start
    ELSE RAdd(start, RDiv(RMul(R(k), RSub(stop, start)), R(num - 1)))

\* the try block of a2_daq_scan up to the scan, the scan entered whatever the
\* DAQ reports
DaqBeginUnchecked(num, starts, stop_pts, positions, connects) ==
    [pc |-> "scan", num |-> num, starts |-> starts, stops |-> stop_pts,
     motors |-> positions, step |-> 0, connected |-> connects,
     calls |-> <<"connect", "configure">>, exc |-> ""]

\* a2_daq_scan up to its first yield: the DAQ is connected and configured;
\* when it does not report connected, the exception raised leaves through the
\* finally clause, which ends the run and disconnects
DaqBegin(num, starts, stop_pts, positions, connects) ==
    IF connects
    THEN [pc |-> "scan", num |-> num, starts |-> starts, stops |-> stop_pts,
          motors |-> positions, step |-> 0, connected |-> TRUE,
          calls |-> <<"connect", "configure">>, exc |-> ""]
    ELSE [pc |-> "raised", num |-> num, starts |-> starts, stops |-> stop_pts,
          motors |-> positions, step |-> 0, connected |-> FALSE,
          calls |-> <<"connect", "configure", "end_run", "disconnect">>,
          exc |-> "Exception"]

\* the finally clause of a2_daq_scan
DaqFinally(calls) == calls \o <<"end_run", "disconnect">>

\* where delay_scan goes on when a2_daq_scan has ended: its own finally clause
DelayAfterScan(exc) ==
    IF delay.pc = "scan" THEN [delay EXCEPT !.pc = "finally", !.exc = exc]
    ELSE delay

\* a2_daq_scan is run on its own, on the motors of its arguments
A2DaqScan(num, ends, positions, connects) ==
    /\ daq.pc = "off"
    /\ delay.pc = "off"
    /\ daq' = DaqBegin(num, [m \in DOMAIN ends |-> ends[m][1]],
                       [m \in DOMAIN ends |-> ends[m][2]], positions,
                       connects)
    /\ UNCHANGED <<delay, notDaq>>

\* per_step: the motors are moved to the point of the step and waited for,
\* then the DAQ takes its events
DaqStep ==
    /\ daq.pc = "scan"
    /\ daq.step < daq.num
    /\ daq' = [daq EXCEPT
                  !.motors = [m \in DOMAIN daq.motors |->
                                 ScanPoint(daq.starts[m], daq.stops[m],
                                           daq.num, daq.step)],
                  !.calls = @ \o <<"begin", "wait">>,
                  !.step = @ + 1]
    /\ UNCHANGED <<delay, notDaq>>

\* a step raises: the exception is thrown into the plan at the yield of the
\* move, whether or not the motors have moved, and leaves through the finally
\* clause
DaqStepFails(moved) ==
    /\ daq.pc = "scan"
    /\ daq.step < daq.num
    /\ daq' = [daq EXCEPT
                  !.motors = IF moved
                             THEN [m \in DOMAIN daq.motors |->
                                      ScanPoint(daq.starts[m], daq.stops[m],
                                                daq.num, daq.step)]
                             ELSE @,
                  !.calls = DaqFinally(@),
                  !.pc = "raised",
                  !.exc = "StepError"]
    /\ delay' = DelayAfterScan("StepError")
    /\ UNCHANGED notDaq

\* the scan has made its last step: the finally clause
DaqScanEnd ==
    /\ daq.pc = "scan"
    /\ daq.step = daq.num
    /\ daq' = [daq EXCEPT !.calls = DaqFinally(@), !.pc = "done"]
    /\ delay' = DelayAfterScan("")
    /\ UNCHANGED notDaq

\* the plan is closed while suspended at a yield: GeneratorExit leaves
\* a2_daq_scan through its finally clause; the finally clause of delay_scan
\* then yields when return_to_start is set, which close() refuses
DaqClose ==
    /\ daq.pc = "scan"
    /\ daq' = [daq EXCEPT !.calls = DaqFinally(@), !.pc = "closed",
                          !.exc = "GeneratorExit"]
    /\ delay' = IF delay.pc = "scan"
                THEN [delay EXCEPT
                         !.pc = "closed",
                         !.exc = IF delay.return_to_start
                                 THEN "RuntimeError" ELSE "GeneratorExit"]
                ELSE delay
    /\ UNCHANGED notDaq

\* the positions delay_scan returns to, the ends of the scan taken for them
ReturnPositionsOfScan == <<delay.start, delay.delay_start>>

\* the positions delay_scan returns the vitara and the delay stage to
ReturnPositions == <<delay.vitara_init, delay.delay_init>>

\* delay_scan up to the first yield of a2_daq_scan.  The positions of the
\* delay stage are in units of c/2 mm, c the speed of light in mm/ns.
DelayScan(vitara_position, delay_position, start, stop, num, return_to_start, delay_const, connects) ==
    /\ delay.pc = "off"
    /\ daq.pc = "off"
    /\ LET delay_init == delay_position
           vitara_init == vitara_position
           vitara_start_diff == RSub(start, vitara_init)
           vitara_stop_diff == RSub(stop, vitara_init)
           delay_start == RSub(delay_init,
                               RMul(delay_const, vitara_start_diff))
           delay_stop == RSub(delay_init,
                              RMul(delay_const, vitara_stop_diff))
           begun == DaqBegin(num, <<start, delay_start>>,
                             <<stop, delay_stop>>,
                             <<vitara_position, delay_position>>, connects)
       IN  /\ daq' = begun
           /\ delay' = [pc |-> IF begun.pc = "scan" THEN "scan"
                               ELSE "finally",
                        return_to_start |-> return_to_start,
                        at_start |-> <<vitara_position, delay_position>>,
                        vitara_init |-> vitara_init,
                        delay_init |-> delay_init,
                        start |-> start,
                        delay_start |-> delay_start,
                        cmds |-> <<>>,
                        waited |-> FALSE,
                        exc |-> begun.exc]
    /\ UNCHANGED notDaq

\* the finally clause of delay_scan up to the wait: with return_to_start, the
\* vitara and the delay stage are set to their initial positions in one group
DelayReturn ==
    /\ delay.pc = "finally"
    /\ delay' = IF delay.return_to_start
                THEN [delay EXCEPT !.pc = "wait", !.cmds = ReturnPositions]
                ELSE [delay EXCEPT !.pc = "ended"]
    /\ UNCHANGED <<daq, notDaq>>

\* the vitara (1) or the delay stage (2) arrives where it was last set
DelayArrive(m) ==
    /\ delay.pc = "wait"
    /\ daq.motors[m] # delay.cmds[m]
    /\ daq' = [daq EXCEPT !.motors[m] = delay.cmds[m]]
    /\ UNCHANGED <<delay, notDaq>>

\* plan_wait on the group: both moves are complete, and delay_scan ends, with
\* the exception of the scan when there was one
DelayWait ==
    /\ delay.pc = "wait"
    /\ daq.motors = delay.cmds
    /\ delay' = [delay EXCEPT !.pc = "ended", !.waited = TRUE]
    /\ UNCHANGED <<daq, notDaq>>

\* starts and stops of the scans, and where the motors are before them
ScanEnds == {<<R(0), R(2)>>, <<R(2), R(-2)>>}

MotorPositions == {R(0), R(1)}

NextDaq ==
    \/ \E num \in 1..MaxNum, motors \in 1..2, connects \in BOOLEAN :
          \E ends \in [1..motors -> ScanEnds],
             positions \in [1..motors -> MotorPositions] :
             A2DaqScan(num, ends, positions, connects)
    \/ DaqStep
    \/ \E moved \in BOOLEAN : DaqStepFails(moved)
    \/ DaqScanEnd
    \/ DaqClose

SpecDaq == Init /\ [][NextDaq]_vars

NextDelay ==
    \/ \E vitara_position \in MotorPositions,
          delay_position \in MotorPositions, ends \in ScanEnds,
          num \in 1..MaxNum, return_to_start \in BOOLEAN,
          delay_const \in {R(1), R(2)}, connects \in BOOLEAN :
          DelayScan(vitara_position, delay_position, ends[1], ends[2], num,
                    return_to_start, delay_const, connects)
    \/ DaqStep
    \/ \E moved \in BOOLEAN : DaqStepFails(moved)
    \/ DaqScanEnd
    \/ DaqClose
    \/ DelayReturn
    \/ \E m \in 1..2 : DelayArrive(m)
    \/ DelayWait

SpecDelay == Init /\ [][NextDelay]_vars

(***************************************************************************)
(* Properties of delay_scan (checked under SpecDelay)                      *)
(***************************************************************************)
\* C24: return to start.  With return_to_start=True, whenever delay_scan ends
\* (normal completion, or an exception raised at any step of the underlying
\* scan, including a failed DAQ connection), both the vitara and the delay
\* stage are commanded back to the positions they had when the plan started,
\* and the plan waits for both moves before finishing; with
\* return_to_start=False neither is commanded back.
C24_ReturnToStart ==
    /\ delay.pc = "ended"
          => IF delay.return_to_start
             THEN /\ delay.cmds = delay.at_start
                  /\ delay.waited
                  /\ daq.motors = delay.at_start
             ELSE /\ delay.cmds = <<>>
                  /\ ~delay.waited
    /\ (delay.pc \in {"scan", "finally", "wait"} /\ ~delay.return_to_start)
          => delay.cmds = <<>>

\* delay_scan ended on the exception of a step that had moved both motors away
\* from where they started, and brought them back
C24_Witness ==
    /\ delay.pc = "ended"
    /\ delay.return_to_start
    /\ delay.exc = "StepError"
    /\ daq.step >= 1
    /\ daq.starts[1] # delay.at_start[1]
    /\ daq.starts[2] # delay.at_start[2]
    /\ daq.motors = delay.at_start

(***************************************************************************)
(* Properties of a2_daq_scan (checked under SpecDaq)                       *)
(***************************************************************************)
\* the number of calls of the DAQ method f
DaqCalls(f) == Cardinality({k \in 1..Len(daq.calls) : daq.calls[k] = f})

StepSequencer ==
    /\ scan.pc = "wait"
    /\ coordinates = setpoint
    /\ scan.use_sequencer
    /\ seq.pc = "on"
    /\ seq' = SeqSetTo(1)
    /\ scan' = [scan EXCEPT !.pc = "seq", !.state_control = <<1>>]
    /\ UNCHANGED <<config, calib, coordinates, setpoint, calib_dir, pc,
                   pending, responses, stops, xy, sweep, delay, daq, last>>

\* the rest of inner_per_step, once the status of the sequencer is complete:
\* the row of the step is appended
StepRecord ==
    /\ scan.pc = "seq"
    /\ seq.status = "done"
    /\ scan' = [scan EXCEPT
                   !.pc = "inner",
                   !.q = scan.q + 1,
                   !.scan_positions = Append(scan.scan_positions, ScanRow)]
    /\ UNCHANGED <<config, calib, coordinates, setpoint, calib_dir, pc,
                   pending, responses, stops, xy, sweep, seq, delay, daq,
                   last>>

NextStep ==
    \/ scan.pc = "off" /\ SeqConnect
    \/ \E rng \in OuterRanges, outer_steps \in 1..MaxOuter,
          inner_steps \in 0..MaxInner, use_sequencer \in BOOLEAN :
          /\ seq.pc = "on"
          /\ ScanStart("mcgrane_scan", rng, outer_steps,
                       <<"int", inner_steps>>, 1, use_sequencer)
    \/ OuterStep
    \/ InnerMove
    \/ \E c \in 1..3 : scan.pc = "wait" /\ AxisArrive(c)
                          /\ UNCHANGED <<stops, scan, xy, sweep, seq, delay,
                                         daq>>
    \/ scan.pc = "wait" /\ ~scan.use_sequencer /\ InnerRecord
    \/ StepSequencer
    \/ SeqCbCheck
    \/ SeqCbUpdate
    \/ IocPut
    \/ IocFinish
    \/ StepRecord

\* the scans start on the first sample of the longest and widest palette,
\* calibrated on the unit grid
InitStep ==
    /\ InitScan
    /\ N = MaxN
    /\ chip_spacing = sample_spacing
    /\ calibrated
    /\ calibration_coordinates
          = <<Vec(0, 0, 0), Vec(N - 1, 0, 0), Vec(0, M - 1, 0)>>
    /\ coordinates = start_pt

SpecStep == InitStep /\ [][NextStep]_vars

(***************************************************************************)
(* Properties of the steps of mcgrane_scan (checked under SpecStep)        *)
(***************************************************************************)
\* the palette's move is complete when the sequencer is started, and the
\* palette stays there while the status of the sequencer is waited for
MoveBeforeSequencer ==
    scan.pc = "seq"
    => /\ coordinates = setpoint
       /\ coordinates = last.cmds

\* the sequence started for the step had played and stopped when the status
\* waited for completed, which is when the row of the step was recorded
SequencerBeforeRow ==
    (scan.pc \in {"inner", "outer", "done"} /\ scan.use_sequencer
        /\ Len(scan.scan_positions) >= 1)
    => /\ seq.status = "done"
       /\ seq.done_after_play

\* one row per completed inner step, none for the step under way
OneRowPerStep ==
    scan.pc # "off"
    => Len(scan.scan_positions)
          = IF scan.pc \in {"wait", "seq"} THEN scan.moves - 1 ELSE scan.moves

\* the outer motor is at the point of the outer step during its inner steps
OuterBeforeInner ==
    scan.pc \in {"inner", "wait", "seq"}
    => /\ scan.o < scan.outer_steps
       /\ scan.outer_position = OuterPoint(scan.o)

\* C26: ordering inside a scan step.  In every inner step of mcgrane_scan the
\* palette's relative move has completed before the sequencer is started, the
\* sequencer run has completed before the step's row (mono position, chip,
\* sample, i, j, x, y, z) is recorded, and exactly one row is recorded per
\* completed inner step; within each outer step the outer motor's move
\* completes before the first inner step begins.
C26_StepOrdering ==
    /\ MoveBeforeSequencer
    /\ SequencerBeforeRow
    /\ OneRowPerStep
    /\ OuterBeforeInner

(***************************************************************************)
(* calibrate                                                               *)
(***************************************************************************)
\* positions of calibrate: the move to the previous point, the shell, and the
\* question about the current position
CalibratePcs == {"cal_move", "cal_shell", "cal_ask"}

\* what the calibration of the palette is made of
CalibrationState ==
    [calibrated |-> calibrated, start_pt |-> start_pt, n_pt |-> n_pt,
     m_pt |-> m_pt, calibration_coordinates |-> calibration_coordinates,
     N_hat |-> N_hat, M_hat |-> M_hat, NM_hat |-> NM_hat,
     length_calibrated |-> length_calibrated]

\* calibrate() up to its first stop: the empty list of new points
CalibrateStart ==
    /\ constructed
    /\ pc = "idle"
    /\ last = NoCall
    /\ pc' = IF calibrated THEN "cal_move" ELSE "cal_shell"
    /\ pending' = [op |-> "calibrate", i |-> 1, new_calibration |-> <<>>,
                   before |-> <<CalibrationState, calib_dir>>]
    /\ responses' = <<>>
    /\ UNCHANGED <<config, calib, coordinates, setpoint, calib_dir, last>>

\* a palette that is calibrated is first moved to the previous point i and
\* waited for; a KeyboardInterrupt during the wait stops the motors where they
\* are, and the routine goes on
CalibrateMove(arrives) ==
    /\ pc = "cal_move"
    /\ LET target == calibration_coordinates[pending.i]
       IN  IF target = None
           THEN /\ pc' = "idle"
                /\ pending' = None
                /\ last' = Call("calibrate", <<>>, "TypeError", <<>>, <<>>)
                /\ UNCHANGED <<coordinates, setpoint>>
           ELSE /\ pc' = "cal_shell"
                /\ coordinates' = IF arrives THEN target ELSE coordinates
                /\ setpoint' = IF arrives THEN target ELSE coordinates
                /\ UNCHANGED <<pending, last>>
    /\ UNCHANGED <<config, calib, calib_dir, responses>>

\* the shell: the user drives the motors to a position and leaves the shell
CalibrateShell(pt) ==
    /\ pc = "cal_shell"
    /\ pc' = "cal_ask"
    /\ coordinates' = pt
    /\ setpoint' = pt
    /\ UNCHANGED <<config, calib, calib_dir, pending, responses, last>>

\* confirming a point, the point stored in the palette at once
ConfirmPointStored(i, point) ==
    /\ start_pt' = IF i = 1 THEN point ELSE start_pt
    /\ n_pt' = IF i = 2 THEN point ELSE n_pt
    /\ m_pt' = IF i = 3 THEN point ELSE m_pt
    /\ UNCHANGED <<calibrated, calibration_coordinates, N_hat, M_hat, NM_hat,
                   length_calibrated, calib_dir>>

\* confirming a point appends it to the local list and leaves the palette
\* alone
ConfirmPoint(i, point) == UNCHANGED <<calib, calib_dir>>

\* an answer to the question about the current position: anything but y or n
\* asks again, n goes back to the shell, y takes the position as point i;
\* after the third point _accept_calibration is called with
\* confirm_overwrite=True
CalibrateAnswer(response, io_ok) ==
    /\ pc = "cal_ask"
    /\ Len(responses) < 3 + MaxAnswers
    /\ responses' = Append(responses, response)
    /\ IF Lower(response) \notin {"y", "n"}
       THEN UNCHANGED <<calib, calib_dir, pc, pending, last>>
       ELSE IF Lower(response) = "n"
       THEN /\ pc' = "cal_shell"
            /\ UNCHANGED <<calib, calib_dir, pending, last>>
       ELSE IF pending.i < 3
       THEN /\ pc' = IF calibrated THEN "cal_move" ELSE "cal_shell"
            /\ pending' = [pending EXCEPT
                              !.i = @ + 1,
                              !.new_calibration = Append(@, coordinates)]
            /\ ConfirmPoint(pending.i, coordinates)
            /\ UNCHANGED last
       ELSE LET pts == Append(pending.new_calibration, coordinates)
            IN  IF calibrated
                THEN /\ pc' = "prompt"
                     /\ pending' = [op |-> "calibrate", args |-> <<>>,
                                    pts |-> pts]
                     /\ last' = Call("calibrate", <<>>, "", <<>>, <<>>)
                     /\ UNCHANGED <<calib, calib_dir>>
                ELSE /\ pc' = "idle"
                     /\ pending' = None
                     /\ SetCalibration("calibrate", <<>>, pts[1], pts[2],
                                       pts[3], io_ok)
    /\ UNCHANGED <<config, coordinates, setpoint>>

\* KeyboardInterrupt in the shell or at the question: the except clause of
\* calibrate logs and the routine returns
CalibrateInterrupt ==
    /\ pc \in {"cal_shell", "cal_ask"}
    /\ pc' = "idle"
    /\ pending' = None
    /\ last' = Call("calibrate", <<>>, "", <<>>, <<>>)
    /\ UNCHANGED <<config, calib, coordinates, setpoint, calib_dir,
                   responses>>

NextCalibrate ==
    /\ \/ CalibrateStart
       \/ \E arrives \in BOOLEAN : CalibrateMove(arrives)
       \/ \E pt \in RawPts : CalibrateShell(pt)
       \/ \E response \in Responses, io_ok \in BOOLEAN :
             CalibrateAnswer(response, io_ok)
       \/ CalibrateInterrupt
       \/ \E response \in Responses, io_ok \in BOOLEAN :
             Answer(response, io_ok)
    /\ UNCHANGED <<stops, scan, xy, sweep, seq, delay, daq>>

\* calibrate is run on one of the longest and widest palettes, uncalibrated
\* or after one _accept_calibration
InitCalibrate ==
    /\ Constructed({MaxM})
    /\ N = MaxN
    /\ chip_dims = CHOOSE dims \in ChipDimsSet :
                       InitExc(MaxN, dims, R(1), R(1)) = ""
    /\ chip_spacing = sample_spacing
    /\ OneCalibration
    /\ coordinates \in RawPts
    /\ setpoint = coordinates

SpecCalibrate == InitCalibrate /\ [][NextCalibrate]_vars

(***************************************************************************)
(* Properties of calibrate (checked under SpecCalibrate)                   *)
(***************************************************************************)
\* the number of points confirmed by the answers given so far
Confirmed(answers) ==
    Cardinality({k \in 1..Len(answers) : Lower(answers[k]) = "y"})

\* calibrate is ended by a KeyboardInterrupt
Interrupted ==
    /\ pc \in CalibratePcs
    /\ pc' = "idle"
    /\ responses' = responses
    /\ last'.exc = ""

\* C27: interrupted calibration.  If the interactive calibrate() routine is
\* ended by a KeyboardInterrupt at any point before all three points ([0,0],
\* [N-1,0], [0,M-1], collected in that order, each only on a 'y' answer) have
\* been confirmed, the palette's calibration state is exactly what it was
\* before calibrate() was called and no calibration file is written.
C27_InterruptedCalibration ==
    [][/\ pc \in CalibratePcs
          => /\ Len(pending.new_calibration) = pending.i - 1
             /\ Len(pending.new_calibration) = Confirmed(responses)
             /\ pending.i <= 3
       /\ Interrupted
          => /\ Len(pending.new_calibration) < 3
             /\ CalibrationState' = pending.before[1]
             /\ calib_dir' = pending.before[2]]_vars

\* calibrate on a calibrated palette was interrupted after two points had
\* been confirmed away from the previous ones
C27_Witness ==
    /\ pc = "idle"
    /\ last.op = "calibrate"
    /\ last.exc = ""
    /\ Confirmed(responses) = 2
    /\ calibrated
    /\ start_pt # None
    /\ coordinates # start_pt
    /\ coordinates # n_pt

(***************************************************************************)
(* Properties of the calibration corners (checked under SpecCalls)         *)
(***************************************************************************)
\* C28: calibration corners are fixed points of the forward map.  For every
\* calibration (start_pt, n_pt, m_pt) and every valid chip geometry,
\* locate_2d(0, 0) = start_pt, locate_2d(N-1, 0) = n_pt and
\* locate_2d(0, M-1) = m_pt: the chip-boundary scaling of N_hat and the
\* per-chip correction term cancel exactly at the far long-axis corner.
C28_CornersFixed ==
    (CompleteCalibration /\ last.op = "locate_2d")
    => /\ last.args = <<0, 0>> => (last.exc = "" /\ last.ret = start_pt)
       /\ last.args = <<N - 1, 0>> => (last.exc = "" /\ last.ret = n_pt)
       /\ last.args = <<0, M - 1>> => (last.exc = "" /\ last.ret = m_pt)

\* the far long-axis corner of a palette of two chips with a gap between
\* them was located
C28_Witness ==
    /\ CompleteCalibration
    /\ num_chips >= 1
    /\ chip_factor # R(0)
    /\ last.op = "locate_2d"
    /\ last.args = <<N - 1, 0>>
    /\ last.ret = n_pt
    /\ n_pt # start_pt

(***************************************************************************)
(* Readbacks of the default palette                                        *)
(***************************************************************************)
\* the defaults of __init__
DefaultN == 80

DefaultM == 23

DefaultChipDims == <<8, 24, 24, 24>>

DefaultSampleSpacing == R(1)

DefaultChipSpacing == <<12, 5>>

\* the corners of the default palette mounted along the motor axes at its
\* nominal pitch: 83.2 mm along x, 22 mm along y
NominalPts == <<Vec(0, 0, 0), <<<<416, 5>>, R(0), R(0)>>, Vec(0, 22, 0)>>

\* McgranePalette() calibrated on the nominal corners, the motors at rest on
\* some sample
InitDefault ==
    /\ constructed = TRUE
    /\ InitExc(DefaultN, DefaultChipDims, DefaultSampleSpacing,
               DefaultChipSpacing) = ""
    /\ N = DefaultN
    /\ M = DefaultM
    /\ chip_dims = DefaultChipDims
    /\ sample_spacing = DefaultSampleSpacing
    /\ chip_spacing = DefaultChipSpacing
    /\ calib_dir = EmptyDir
    /\ pc = "idle"
    /\ pending = None
    /\ responses = <<>>
    /\ stops = <<>>
    /\ scan = NoScan
    /\ xy = NoXy
    /\ sweep = NoSweep
    /\ seq = NoSeq
    /\ delay = NoDelay
    /\ daq = NoDaq
    /\ last = NoCall
    /\ calibrated = TRUE
    /\ start_pt = NominalPts[1]
    /\ n_pt = NominalPts[2]
    /\ m_pt = NominalPts[3]
    /\ calibration_coordinates = NominalPts
    /\ N_hat = NewNHat(None, NominalPts[1], NominalPts[2])
    /\ M_hat = NewMHat(None, NominalPts[1], NominalPts[2], NominalPts[3])
    /\ NM_hat = NewNMHat(None, NominalPts[1], NominalPts[2], NominalPts[3])
    /\ length_calibrated =
           NewLengthCalibrated(None, NominalPts[1], NominalPts[2],
                               NominalPts[3])
    /\ coordinates \in {Locate2dVal(i, j) : i \in 0..(DefaultN - 1),
                                            j \in 0..(DefaultM - 1)}
    /\ setpoint = coordinates

\* the readbacks of the palette
NextDefault ==
    /\ \/ Index
       \/ Position
       \/ Chip
    /\ UNCHANGED <<stops, scan, xy, sweep, seq, delay, daq>>

SpecDefault == InitDefault /\ [][NextDefault]_vars

\* the sample the motors sit on: on the nominal corners the columns of the
\* grid differ in x and the rows of a column in y
SampleAt ==
    LET i == CHOOSE c \in 0..(N - 1) : Locate2dVal(c, 0)[1] = coordinates[1]
        j == CHOOSE r \in 0..(M - 1) : Locate2dVal(i, r) = coordinates
    IN  <<i, j>>

\* C29: on the default palette calibrated on its nominal corners, with the
\* motors at locate_2d(i, j), chip reads _chip_from_i(i), index reads (i, j)
\* and position reads the sample number of (i, j), whose place locate_1d
\* gives back as (i, j)
C29_ReadbackInverts ==
    LET ij == SampleAt
    IN  /\ last.op \in {"chip", "index", "position"} => last.exc = ""
        /\ last.op = "chip" => last.ret = ChipFromI(ij[1])
        /\ last.op = "index" => last.ret = ij
        /\ last.op = "position" =>
               /\ last.ret = <<SampleOf(ij[1], ij[2])>>
               /\ Locate1dVal(last.ret[1]) = ij

\* the index is read on the first sample of the second chip
C29_Witness ==
    /\ n_pt[1] = length
    /\ coordinates = Locate2dVal(8, 22)
    /\ coordinates[1] = <<47, 5>>
    /\ last.op = "index"
    /\ last.ret = <<8, 22>>

(***************************************************************************)
(* Moves to motor positions and the calibration state                      *)
(***************************************************************************)
\* the helper of the shell calling move instead of mv
ShellMoveUnread(args) ==
    /\ pc = "cal_shell"
    /\ MoveFuncs("mv", args)
    /\ UNCHANGED <<config, calib, calib_dir, pc, pending, responses, stops>>

\* move(x, y, z) typed in the shell of calibrate: the helper calls
\* self.mv(x, y, z), which reads index and position and then moves; what mv
\* raises is shown by the shell, which goes on
ShellMove(args) ==
    /\ pc = "cal_shell"
    /\ IF IndexExc # "" THEN Failed("mv", args, IndexExc)
       ELSE MoveFuncs("mv", args)
    /\ UNCHANGED <<config, calib, calib_dir, pc, pending, responses, stops>>

\* move and mv called on a palette at rest, and the helper called in the
\* shell of calibrate; the shell is left once the motors are at rest
NextRaw ==
    /\ \/ \E args \in MoveArgs :
             last = NoCall /\ Move(args) /\ UNCHANGED stops
       \/ \E args \in MvArgs : last = NoCall /\ Mv(args)
       \/ \E c \in 1..3 : AxisArrive(c) /\ UNCHANGED stops
       \/ MvDone
       \/ CalibrateStart /\ UNCHANGED stops
       \/ \E arrives \in BOOLEAN : CalibrateMove(arrives) /\ UNCHANGED stops
       \/ \E args \in RawPts : ShellMove(args)
       \/ \E pt \in RawPts :
             coordinates = setpoint /\ CalibrateShell(pt) /\ UNCHANGED stops
       \/ CalibrateInterrupt /\ UNCHANGED stops
    /\ UNCHANGED <<scan, xy, sweep, seq, delay, daq>>

SpecRaw == InitCalls /\ [][NextRaw]_vars

====
